---------------------------- MODULE Spec2Model ----------------------------
(***************************************************************************)
(* Model of the request-orchestration core of vibefit: one invocation of   *)
(* an image-generation or chat call, in each of its implementations        *)
(*   "service" : src/services/geminiService.ts (direct SDK functions)      *)
(*   "server"  : src/server.js (Express routes)                            *)
(*   "api"     : src/api/*.js (serverless handlers)                        *)
(* against a remote model whose replies are chosen nondeterministically.   *)
(*                                                                         *)
(* JavaScript strings are sequences of one-character strings, so that      *)
(* String.prototype.includes and template concatenation are computed.      *)
(* An optional value (undefined / null) is Null = <<>> or Some(v) = <<v>>. *)
(***************************************************************************)
EXTENDS Integers, Sequences, FiniteSets, TLC

VARIABLES impl, kind, req, pc, calls, replies, caught, attemptedModel, outcome,
          ui, run, http, probes, chat, edits, slots, latest, entry

\* the state beside the try-on flow: the chat widget, the quick edits that
\* are under way, the requests a backend serves side by side, and a history
\* variable: the aspect ratio the latest selection of a photo or of a ratio
\* stands for, and the place in probes of the probe of the latest photo;
\* and what a backend handler is entered with beside the body: req.method
\* and process.env.GEMINI_API_KEY
sideVars == <<chat, edits, slots, latest, entry>>

\* the state of the browser application: React state, the try-on run that
\* is under way, the HTTP exchange it waits for, the pending image probes
appVars == <<ui, run, http, probes, chat, edits, slots, latest, entry>>

vars == <<impl, kind, req, pc, calls, replies, caught, attemptedModel, outcome,
          ui, run, http, probes, chat, edits, slots, latest, entry>>

----------------------------------------------------------------------------
(* Bounds of the model *)

\* longest caller-supplied chat history that is enumerated
MaxHistory == 1

----------------------------------------------------------------------------
(* JavaScript values *)

Null == <<>>
Some(v) == <<v>>

\* truthiness of an optional string: undefined, null and "" are falsy
Truthy(o) == o # Null /\ o[1] # <<>>

\* o || d for an optional string o and a string d
OrElse(o, d) == IF Truthy(o) THEN o[1] ELSE d

\* s.includes(sub)
Includes(s, sub) ==
    \E i \in 0..(Len(s) - Len(sub)) : SubSeq(s, i + 1, i + Len(sub)) = sub

\* e.message?.includes(sub): undefined (falsy) when the message is absent
MessageIncludes(e, sub) == e.message # Null /\ Includes(e.message[1], sub)

----------------------------------------------------------------------------
(* String literals of the source *)

PERMISSION_DENIED ==
    <<"P", "E", "R", "M", "I", "S", "S", "I", "O", "N", "_", "D", "E", "N", "I", "E", "D">>
NOT_FOUND == <<"n", "o", "t", " ", "f", "o", "u", "n", "d">>
NoImageFromPro ==
    <<"N", "o", " ", "i", "m", "a", "g", "e", " ", "g", "e", "n", "e", "r", "a", "t", "e", "d",
      " ", "f", "r", "o", "m", " ", "G", "e", "m", "i", "n", "i", " ", "3", " ", "P", "r", "o">>
FailedToGenerateImage ==
    <<"F", "a", "i", "l", "e", "d", " ", "t", "o", " ", "g", "e", "n", "e", "r", "a", "t", "e",
      " ", "i", "m", "a", "g", "e">>
NoImageGenerated ==
    <<"N", "o", " ", "i", "m", "a", "g", "e", " ", "g", "e", "n", "e", "r", "a", "t", "e", "d", ".">>
FailedToChat ==
    <<"F", "a", "i", "l", "e", "d", " ", "t", "o", " ", "c", "h", "a", "t", " ", "w", "i", "t", "h",
      " ", "b", "o", "t">>
DataUriPrefix ==
    <<"d", "a", "t", "a", ":", "i", "m", "a", "g", "e", "/", "p", "n", "g", ";", "b", "a", "s", "e",
      "6", "4", ",">>

PRO_IMAGE == "gemini-3-pro-image-preview"
FLASH_IMAGE == "gemini-2.5-flash-image"
PRO_CHAT == "gemini-3-pro-preview"
FLASH_CHAT == "gemini-2.5-flash"
ThinkingBudget == 32768

Impls == {"service", "server", "api"}

----------------------------------------------------------------------------
(* What the remote model can answer *)

\* messages a rejected call can carry
MsgPermission ==
    <<"4", "0", "3", " ", "P", "E", "R", "M", "I", "S", "S", "I", "O", "N", "_", "D", "E", "N",
      "I", "E", "D">>
MsgModelNotFound ==
    <<"m", "o", "d", "e", "l", " ", "n", "o", "t", " ", "f", "o", "u", "n", "d">>
MsgNotFoundCapital == <<"N", "o", "t", " ", "F", "o", "u", "n", "d">>
MsgQuota == <<"q", "u", "o", "t", "a", " ", "e", "x", "c", "e", "e", "d", "e", "d">>

Messages ==
    {Null, Some(<<>>), Some(MsgPermission), Some(MsgModelNotFound),
     Some(MsgNotFoundCapital), Some(MsgQuota)}

\* the status / code property of an error: absent or a number
Absent == Null
Statuses == {Absent, Some(400), Some(403), Some(404), Some(429)}

\* errors thrown by ai.models.generateContent: an HTTP status with any
\* message, or a bare numeric code (network-level errors carry neither)
Errors ==
    [status : Statuses, code : {Absent}, message : Messages]
    \cup [status : {Absent}, code : {Some(400), Some(403), Some(404)}, message : {Some(MsgQuota)}]

\* base64 payloads
DataQQ == <<"Q", "Q", "=", "=">>
DataZg == <<"Z", "g", "=", "=">>

TextPart(t) == [text |-> t]
InlinePart(d) == [inlineData |-> [mimeType |-> "image/png", data |-> d]]
Candidate(ps) == [content |-> [parts |-> ps]]

\* responses of an image model
ImageResponses ==
    { [promptFeedback |-> "blocked"],
      [candidates |-> <<>>],
      [candidates |-> <<Candidate(<<TextPart(MsgQuota)>>)>>],
      [candidates |-> <<Candidate(<<InlinePart(DataQQ)>>)>>],
      [candidates |-> <<Candidate(<<TextPart(MsgQuota), InlinePart(DataZg), InlinePart(DataQQ)>>)>>],
      [candidates |-> <<Candidate(<<TextPart(MsgQuota)>>), Candidate(<<InlinePart(DataQQ)>>)>>] }

\* responses of a chat model: response.text is absent, empty or a text
ChatResponses == { [text |-> Null], [text |-> Some(<<>>)], [text |-> Some(<<"h", "i">>)] }

----------------------------------------------------------------------------
(* Request inputs *)

Prompts == { <<"a">>, <<"b">> }
UserImages == { DataZg }
AspectRatios == { "1:1", "9:16" }
ImageSizes == { "1K", "4K" }

GenRequests ==
    [prompt : Prompts, userImageBase64 : UserImages,
     aspectRatio : AspectRatios, imageSize : ImageSizes]

Turn(r, t) == [role |-> r, parts |-> <<[text |-> t]>>]
Turns == { Turn("user", <<"a">>), Turn("model", <<"h", "i">>) }

RECURSIVE SeqsUpTo(_, _)
SeqsUpTo(S, n) ==
    IF n = 0 THEN { <<>> }
    ELSE LET shorter == SeqsUpTo(S, n - 1)
         IN  shorter \cup { Append(s, x) : s \in { t \in shorter : Len(t) = n - 1 }, x \in S }

Histories == SeqsUpTo(Turns, MaxHistory)

ChatRequests ==
    [history : Histories, message : { <<"b">> },
     useSearch : BOOLEAN, useThinking : BOOLEAN]

----------------------------------------------------------------------------
(* Model Response Extractor *)

\* candidate?.content?.parts || []
PartsOf(candidate) ==
    IF "content" \in DOMAIN candidate /\ "parts" \in DOMAIN candidate.content
    THEN candidate.content.parts
    ELSE <<>>

\* response.candidates?.[0]?.content?.parts || []
FirstCandidateParts(response) ==
    IF "candidates" \in DOMAIN response /\ Len(response.candidates) > 0
    THEN PartsOf(response.candidates[1])
    ELSE <<>>

\* mutant: the parts of every candidate are scanned
extractImage_AnyCandidate(response) ==
    LET cs == IF "candidates" \in DOMAIN response THEN response.candidates ELSE <<>>
        hits == { c \in 1..Len(cs) :
                    \E i \in 1..Len(PartsOf(cs[c])) : "inlineData" \in DOMAIN PartsOf(cs[c])[i] }
        c1 == CHOOSE c \in hits : \A d \in hits : c <= d
        inline == { i \in 1..Len(PartsOf(cs[c1])) : "inlineData" \in DOMAIN PartsOf(cs[c1])[i] }
        first == CHOOSE i \in inline : \A j \in inline : i <= j
    IN  IF hits = {} THEN Null
        ELSE Some(DataUriPrefix \o PartsOf(cs[c1])[first].inlineData.data)

extractImage(response) ==
    LET parts == FirstCandidateParts(response)
        inline == { i \in 1..Len(parts) : "inlineData" \in DOMAIN parts[i] }
        first == CHOOSE i \in inline : \A j \in inline : i <= j
    IN  IF inline = {} THEN Null
        ELSE Some(DataUriPrefix \o parts[first].inlineData.data)

----------------------------------------------------------------------------
(* Generation Request Builder *)

\* parts of the request to gemini-3-pro-image-preview
PrimaryImageParts(r) ==
    << [text |-> r.prompt],
       [inlineData |-> [mimeType |-> "image/jpeg", data |-> r.userImageBase64]] >>

PrimaryImageConfig(r) ==
    [imageConfig |-> [aspectRatio |-> r.aspectRatio, imageSize |-> r.imageSize]]

PrimaryImageCall(r) ==
    [model |-> PRO_IMAGE,
     contents |-> [parts |-> PrimaryImageParts(r)],
     config |-> PrimaryImageConfig(r)]

\* parts of the request to gemini-2.5-flash-image
FallbackImageParts(r) ==
    << [text |-> r.prompt],
       [inlineData |-> [mimeType |-> "image/jpeg", data |-> r.userImageBase64]] >>

\* mutant: the quality is forwarded to the fallback model
FallbackImageConfig_ForwardsSize(r) ==
    [imageConfig |-> [aspectRatio |-> r.aspectRatio, imageSize |-> r.imageSize]]

FallbackImageConfig(r) ==
    [imageConfig |-> [aspectRatio |-> r.aspectRatio]]

FallbackImageCall(r) ==
    [model |-> FLASH_IMAGE,
     contents |-> [parts |-> FallbackImageParts(r)],
     config |-> FallbackImageConfig(r)]

\* useSearch ? [{ googleSearch: {} }] : undefined
ChatTools(r) == IF r.useSearch THEN Some(<<"googleSearch">>) ELSE Null

\* [...history, { role: 'user', parts: [{ text: message }] }]
PrimaryChatContents(r) == r.history \o <<Turn("user", r.message)>>

PrimaryChatConfig(r) ==
    IF r.useThinking
    THEN [tools |-> ChatTools(r), thinkingConfig |-> [thinkingBudget |-> ThinkingBudget]]
    ELSE [tools |-> ChatTools(r)]

PrimaryChatCall(r) ==
    [model |-> PRO_CHAT, contents |-> PrimaryChatContents(r), config |-> PrimaryChatConfig(r)]

\* mutant: the fallback request carries the new turn without the history
FallbackChatContents_NoHistory(r) == <<Turn("user", r.message)>>

FallbackChatContents(r) == r.history \o <<Turn("user", r.message)>>

\* mutant: the fallback request keeps the thinking budget of the primary one
FallbackChatConfig_KeepsThinking(r) == PrimaryChatConfig(r)

FallbackChatConfig(r) == [tools |-> ChatTools(r)]

FallbackChatCall(r) ==
    [model |-> FLASH_CHAT, contents |-> FallbackChatContents(r), config |-> FallbackChatConfig(r)]

----------------------------------------------------------------------------
(* Failure classification *)

\* the condition guarding the fallback in the image routes, in
\* generateTryOnImage and in the chat route and chat handler
\* mutant: model-not-found is not recognised
IsFallbackError_Only403(e) ==
    e.status = Some(403) \/ e.code = Some(403) \/ MessageIncludes(e, PERMISSION_DENIED)

\* mutant: a quota failure (429) is retried on the fallback model too
IsFallbackError_AlsoQuota(e) ==
    \/ e.status = Some(403) \/ e.code = Some(403) \/ MessageIncludes(e, PERMISSION_DENIED)
    \/ e.status = Some(404) \/ e.code = Some(404) \/ MessageIncludes(e, NOT_FOUND)
    \/ e.status = Some(429)

\* mutant: error.code === 404 is not tested
IsFallbackError_NoCode404(e) ==
    \/ e.status = Some(403) \/ e.code = Some(403) \/ MessageIncludes(e, PERMISSION_DENIED)
    \/ e.status = Some(404) \/ MessageIncludes(e, NOT_FOUND)

IsFallbackError(e) ==
    \/ e.status = Some(403) \/ e.code = Some(403) \/ MessageIncludes(e, PERMISSION_DENIED)
    \/ e.status = Some(404) \/ e.code = Some(404) \/ MessageIncludes(e, NOT_FOUND)

\* the condition guarding the fallback in chatWithBot (direct SDK)
chatWithBotFallsBack(e) ==
    e.status = Some(403) \/ e.code = Some(403) \/ MessageIncludes(e, PERMISSION_DENIED)

\* mutant: a serverless chat handler that falls back as chatWithBot does
ChatFallsBack_ServerOnly(i, e) ==
    IF i = "server" THEN IsFallbackError(e) ELSE chatWithBotFallsBack(e)

ChatFallsBack(i, e) ==
    IF i = "service" THEN chatWithBotFallsBack(e) ELSE IsFallbackError(e)

\* new Error("No image generated from Gemini 3 Pro")
NoImageError == [status |-> Absent, code |-> Absent, message |-> Some(NoImageFromPro)]

----------------------------------------------------------------------------
(* Outcomes of a call *)

\* a function of geminiService.ts returns v / throws e
ServiceReturn(v) == [returned |-> v]
ServiceThrow(e) == [thrown |-> e]

\* if (finalImage) res.json({ imageUrl, model }) else res.status(500)...
HttpGenFinish(finalImage, model) ==
    IF Truthy(finalImage)
    THEN [status |-> 200, body |-> [imageUrl |-> finalImage[1], model |-> model]]
    ELSE [status |-> 500, body |-> [error |-> NoImageGenerated]]

\* outer catch of the image route
HttpGenError(e) ==
    [status |-> 500, body |-> [error |-> OrElse(e.message, FailedToGenerateImage)]]

\* res.json({ text: responseText })
HttpChatFinish(responseText) == [status |-> 200, body |-> [text |-> responseText]]

\* outer catch of the chat route
HttpChatError(e) ==
    [status |-> 500, body |-> [error |-> OrElse(e.message, FailedToChat)]]

----------------------------------------------------------------------------
(* The application before any user action (App.tsx) *)

\* useState initial values
InitialUi ==
    [step |-> 1,
     userFile |-> Null, clothFile |-> Null,
     userPreview |-> Null, clothPreview |-> Null,
     isAnalyzing |-> FALSE, isGenerating |-> FALSE,
     analysisResult |-> Null, generatedImage |-> Null,
     selectedAspectRatio |-> "1:1", selectedSize |-> "1K",
     editPrompt |-> <<>>, isEditing |-> FALSE]

\* ChatWidget.tsx: the useState values, the calls of chatWithBot that are
\* awaited (sends), the audio uploads that are under way (audios), the text
\* of the last alert, the error of the last catch block
InitialChat ==
    [isOpen |-> FALSE, messages |-> <<>>, inputValue |-> <<>>, isLoading |-> FALSE,
     useSearch |-> FALSE, useThinking |-> FALSE,
     sends |-> <<>>, audios |-> <<>>, alert |-> Null, caught |-> Null]

\* no handleGenerateProcess has been called
NoRun ==
    [at |-> "none",
     userFile |-> Null, clothFile |-> Null, aspectRatio |-> "", imageSize |-> "",
     userBase64 |-> Null, clothBase64 |-> Null,
     analyzeResponse |-> Null, analyzeReplies |-> <<>>, rawAnalysis |-> Null,
     failedAt |-> "", alert |-> Null,
     generateRequests |-> <<>>]

----------------------------------------------------------------------------
(* The state machine: one invocation, a step per run between two awaits *)

Init ==
    /\ chat = InitialChat
    /\ edits = <<>>
    /\ slots = <<>>
    /\ latest = [ratio |-> InitialUi.selectedAspectRatio, live |-> 0]
    /\ entry = Null
    /\ ui = InitialUi
    /\ run = NoRun
    /\ http = Null
    /\ probes = <<>>
    /\ impl = "none"
    /\ kind = "none"
    /\ req = Null
    /\ pc = "idle"
    /\ calls = <<>>
    /\ replies = <<>>
    /\ caught = Null
    /\ attemptedModel = ""
    /\ outcome = Null

Resolved(v) == [ok |-> TRUE, value |-> v]
Rejected(e) == [ok |-> FALSE, error |-> e]

\* the invocation ends with outcome o
Finish(o) ==
    /\ pc' = "done"
    /\ outcome' = Some(o)

\* Entry of an image generation: the primary request is issued
GenerateImageStart(i, r) ==
    /\ pc = "idle"
    /\ impl' = i
    /\ kind' = "generate"
    /\ req' = r
    /\ attemptedModel' = IF i = "service" THEN "" ELSE PRO_IMAGE
    /\ calls' = <<PrimaryImageCall(r)>>
    /\ pc' = "primary"
    /\ UNCHANGED <<replies, caught, outcome>>

\* The catch block of the primary attempt, entered with error e
GenerateImageCatch(e) ==
    /\ caught' = Some(e)
    /\ IF IsFallbackError(e)
       THEN /\ attemptedModel' = IF impl = "service" THEN attemptedModel ELSE FLASH_IMAGE
            /\ calls' = Append(calls, FallbackImageCall(req))
            /\ pc' = "fallback"
            /\ UNCHANGED outcome
       ELSE /\ Finish(IF impl = "service" THEN ServiceThrow(e) ELSE HttpGenError(e))
            /\ UNCHANGED <<attemptedModel, calls>>

\* The primary request resolves with response resp
GenerateImagePrimaryResolved(resp) ==
    /\ pc = "primary" /\ kind = "generate"
    /\ replies' = Append(replies, Resolved(resp))
    /\ LET image == extractImage(resp)
       IN  IF Truthy(image)
           THEN /\ Finish(IF impl = "service" THEN ServiceReturn(image[1])
                          ELSE HttpGenFinish(image, attemptedModel))
                /\ UNCHANGED <<caught, attemptedModel, calls>>
           ELSE GenerateImageCatch(NoImageError)
    /\ UNCHANGED <<impl, kind, req>>

\* The primary request rejects with error e
GenerateImagePrimaryRejected(e) ==
    /\ pc = "primary" /\ kind = "generate"
    /\ replies' = Append(replies, Rejected(e))
    /\ GenerateImageCatch(e)
    /\ UNCHANGED <<impl, kind, req>>

\* The fallback request resolves with response resp
GenerateImageFallbackResolved(resp) ==
    /\ pc = "fallback" /\ kind = "generate"
    /\ replies' = Append(replies, Resolved(resp))
    /\ LET image == extractImage(resp)
       IN  Finish(IF impl = "service"
                  THEN (IF Truthy(image) THEN ServiceReturn(image[1])
                        ELSE ServiceThrow(caught[1]))
                  ELSE HttpGenFinish(image, attemptedModel))
    /\ UNCHANGED <<impl, kind, req, calls, caught, attemptedModel>>

\* mutant: a capability failure of the fallback model is retried once more
GenerateImageFallbackRejected_Retry(e) ==
    /\ pc = "fallback" /\ kind = "generate"
    /\ replies' = Append(replies, Rejected(e))
    /\ IF IsFallbackError(e)
       THEN /\ calls' = Append(calls, FallbackImageCall(req))
            /\ UNCHANGED <<pc, outcome>>
       ELSE /\ Finish(IF impl = "service" THEN ServiceThrow(e) ELSE HttpGenError(e))
            /\ UNCHANGED calls
    /\ UNCHANGED <<impl, kind, req, caught, attemptedModel>>

\* The fallback request rejects with error e
GenerateImageFallbackRejected(e) ==
    /\ pc = "fallback" /\ kind = "generate"
    /\ replies' = Append(replies, Rejected(e))
    /\ Finish(IF impl = "service" THEN ServiceThrow(e) ELSE HttpGenError(e))
    /\ UNCHANGED <<impl, kind, req, calls, caught, attemptedModel>>

\* Entry of a chat call: the primary request is issued
ChatStart(i, r) ==
    /\ pc = "idle"
    /\ impl' = i
    /\ kind' = "chat"
    /\ req' = r
    /\ calls' = <<PrimaryChatCall(r)>>
    /\ pc' = "primary"
    /\ UNCHANGED <<replies, caught, attemptedModel, outcome>>

\* mutant: an empty chat answer is retried on the fallback model
ChatPrimaryResolved_RetryEmpty(resp) ==
    /\ pc = "primary" /\ kind = "chat"
    /\ replies' = Append(replies, Resolved(resp))
    /\ IF Truthy(resp.text)
       THEN /\ Finish(IF impl = "service" THEN ServiceReturn(resp.text)
                      ELSE HttpChatFinish(resp.text))
            /\ UNCHANGED calls
       ELSE /\ calls' = Append(calls, FallbackChatCall(req))
            /\ pc' = "fallback"
            /\ UNCHANGED outcome
    /\ UNCHANGED <<impl, kind, req, caught, attemptedModel>>

\* The primary chat request resolves: response.text is the result
ChatPrimaryResolved(resp) ==
    /\ pc = "primary" /\ kind = "chat"
    /\ replies' = Append(replies, Resolved(resp))
    /\ Finish(IF impl = "service" THEN ServiceReturn(resp.text) ELSE HttpChatFinish(resp.text))
    /\ UNCHANGED <<impl, kind, req, calls, caught, attemptedModel>>

\* The primary chat request rejects with error e
ChatPrimaryRejected(e) ==
    /\ pc = "primary" /\ kind = "chat"
    /\ replies' = Append(replies, Rejected(e))
    /\ caught' = Some(e)
    /\ IF ChatFallsBack(impl, e)
       THEN /\ calls' = Append(calls, FallbackChatCall(req))
            /\ pc' = "fallback"
            /\ UNCHANGED outcome
       ELSE /\ Finish(IF impl = "service" THEN ServiceThrow(e) ELSE HttpChatError(e))
            /\ UNCHANGED calls
    /\ UNCHANGED <<impl, kind, req, attemptedModel>>

\* The fallback chat request resolves
ChatFallbackResolved(resp) ==
    /\ pc = "fallback" /\ kind = "chat"
    /\ replies' = Append(replies, Resolved(resp))
    /\ Finish(IF impl = "service" THEN ServiceReturn(resp.text) ELSE HttpChatFinish(resp.text))
    /\ UNCHANGED <<impl, kind, req, calls, caught, attemptedModel>>

\* The fallback chat request rejects with error e
ChatFallbackRejected(e) ==
    /\ pc = "fallback" /\ kind = "chat"
    /\ replies' = Append(replies, Rejected(e))
    /\ Finish(IF impl = "service" THEN ServiceThrow(e) ELSE HttpChatError(e))
    /\ UNCHANGED <<impl, kind, req, calls, caught, attemptedModel>>

Next ==
    \/ \E i \in Impls, r \in GenRequests : GenerateImageStart(i, r) /\ UNCHANGED appVars
    \/ \E resp \in ImageResponses : GenerateImagePrimaryResolved(resp) /\ UNCHANGED appVars
    \/ \E e \in Errors : GenerateImagePrimaryRejected(e) /\ UNCHANGED appVars
    \/ \E resp \in ImageResponses : GenerateImageFallbackResolved(resp) /\ UNCHANGED appVars
    \/ \E e \in Errors : GenerateImageFallbackRejected(e) /\ UNCHANGED appVars
    \/ \E i \in Impls, r \in ChatRequests : ChatStart(i, r) /\ UNCHANGED appVars
    \/ \E resp \in ChatResponses : ChatPrimaryResolved(resp) /\ UNCHANGED appVars
    \/ \E e \in Errors : ChatPrimaryRejected(e) /\ UNCHANGED appVars
    \/ \E resp \in ChatResponses : ChatFallbackResolved(resp) /\ UNCHANGED appVars
    \/ \E e \in Errors : ChatFallbackRejected(e) /\ UNCHANGED appVars

Spec == Init /\ [][Next]_vars

----------------------------------------------------------------------------
(* Quick edit and transcription: one request, one model *)

NoEditedImage == <<"N", "o", " ", "e", "d", "i", "t", "e", "d", " ", "i", "m", "a", "g", "e", " ", "g", "e", "n", "e", "r", "a", "t", "e", "d">>

\* the request of an edit: the image first, the instruction second
EditCall(r) ==
    [model |-> FLASH_IMAGE,
     contents |-> [parts |-> << [inlineData |-> [mimeType |-> "image/jpeg", data |-> r.imageBase64]],
                                [text |-> r.prompt] >>],
     config |-> [imageConfig |-> [aspectRatio |-> r.aspectRatio]]]

\* the request of a transcription: no config
TranscribeCall(r) ==
    [model |-> FLASH_CHAT,
     contents |-> [parts |-> << [inlineData |-> [mimeType |-> r.mimeType, data |-> r.audioBase64]],
                                [text |-> <<"T", "r", "a", "n", "s", "c", "r", "i", "b", "e", " ", "t", "h", "i", "s", " ", "a", "u", "d", "i", "o", " ", "e", "x", "a", "c", "t", "l", "y", ".">>] >>]]

NoEditedImageError == [status |-> Absent, code |-> Absent, message |-> Some(NoEditedImage)]

HttpEditFinish(editedImage) ==
    IF Truthy(editedImage)
    THEN [status |-> 200, body |-> [imageUrl |-> editedImage[1]]]
    ELSE [status |-> 500, body |-> [error |-> (NoEditedImage \o <<".">>)]]

HttpEditError(e) ==
    [status |-> 500, body |-> [error |-> OrElse(e.message, <<"F", "a", "i", "l", "e", "d", " ", "t", "o", " ", "e", "d", "i", "t", " ", "i", "m", "a", "g", "e">>)]]

HttpTranscribeFinish(text) == [status |-> 200, body |-> [text |-> text]]

HttpTranscribeError(e) ==
    [status |-> 500, body |-> [error |-> OrElse(e.message, <<"F", "a", "i", "l", "e", "d", " ", "t", "o", " ", "t", "r", "a", "n", "s", "c", "r", "i", "b", "e", " ", "a", "u", "d", "i", "o">>)]]

\* Entry of an edit: the only request is issued
EditStart(i, r) ==
    /\ pc = "idle"
    /\ impl' = i
    /\ kind' = "edit"
    /\ req' = r
    /\ calls' = <<EditCall(r)>>
    /\ pc' = "primary"
    /\ UNCHANGED <<replies, caught, attemptedModel, outcome>>

\* The edit request resolves
EditResolved(resp) ==
    /\ pc = "primary" /\ kind = "edit"
    /\ replies' = Append(replies, Resolved(resp))
    /\ LET editedImage == extractImage(resp)
       IN  IF impl = "service"
           THEN IF Truthy(editedImage)
                THEN /\ Finish(ServiceReturn(editedImage[1]))
                     /\ UNCHANGED caught
                ELSE /\ caught' = Some(NoEditedImageError)
                     /\ Finish(ServiceThrow(NoEditedImageError))
           ELSE /\ Finish(HttpEditFinish(editedImage))
                /\ UNCHANGED caught
    /\ UNCHANGED <<impl, kind, req, calls, attemptedModel>>

\* The edit request rejects with error e
EditRejected(e) ==
    /\ pc = "primary" /\ kind = "edit"
    /\ replies' = Append(replies, Rejected(e))
    /\ caught' = Some(e)
    /\ Finish(IF impl = "service" THEN ServiceThrow(e) ELSE HttpEditError(e))
    /\ UNCHANGED <<impl, kind, req, calls, attemptedModel>>

\* Entry of a transcription: the only request is issued
TranscribeStart(i, r) ==
    /\ pc = "idle"
    /\ impl' = i
    /\ kind' = "transcribe"
    /\ req' = r
    /\ calls' = <<TranscribeCall(r)>>
    /\ pc' = "primary"
    /\ UNCHANGED <<replies, caught, attemptedModel, outcome>>

\* The transcription request resolves
TranscribeResolved(resp) ==
    /\ pc = "primary" /\ kind = "transcribe"
    /\ replies' = Append(replies, Resolved(resp))
    /\ Finish(IF impl = "service" THEN ServiceReturn(resp.text) ELSE HttpTranscribeFinish(resp.text))
    /\ UNCHANGED <<impl, kind, req, calls, caught, attemptedModel>>

\* mutant: a transcription that is retried once when the model is refused
TranscribeRejected_Retry(e) ==
    /\ pc = "primary" /\ kind = "transcribe"
    /\ replies' = Append(replies, Rejected(e))
    /\ caught' = Some(e)
    /\ IF IsFallbackError(e) /\ Len(calls) = 1
       THEN /\ calls' = Append(calls, TranscribeCall(req))
            /\ UNCHANGED <<pc, outcome>>
       ELSE /\ Finish(IF impl = "service" THEN ServiceThrow(e) ELSE HttpTranscribeError(e))
            /\ UNCHANGED calls
    /\ UNCHANGED <<impl, kind, req, attemptedModel>>

\* The transcription request rejects with error e
TranscribeRejected(e) ==
    /\ pc = "primary" /\ kind = "transcribe"
    /\ replies' = Append(replies, Rejected(e))
    /\ caught' = Some(e)
    /\ Finish(IF impl = "service" THEN ServiceThrow(e) ELSE HttpTranscribeError(e))
    /\ UNCHANGED <<impl, kind, req, calls, attemptedModel>>

NextSingle ==
    \/ \E i \in Impls, r \in [imageBase64 : { DataQQ, DataZg }, prompt : Prompts, aspectRatio : AspectRatios] : EditStart(i, r) /\ UNCHANGED appVars
    \/ \E resp \in ImageResponses : EditResolved(resp) /\ UNCHANGED appVars
    \/ \E e \in Errors : EditRejected(e) /\ UNCHANGED appVars
    \/ \E i \in Impls, r \in [audioBase64 : { DataQQ, DataZg }, mimeType : { "audio/webm", "audio/wav" }] : TranscribeStart(i, r) /\ UNCHANGED appVars
    \/ \E resp \in ChatResponses : TranscribeResolved(resp) /\ UNCHANGED appVars
    \/ \E e \in Errors : TranscribeRejected(e) /\ UNCHANGED appVars

SpecSingle == Init /\ [][NextSingle]_vars

----------------------------------------------------------------------------
(* Analysis text parser (utils.ts) *)

\* the code unit U+2705 that opens each section label
CheckMark == "U+2705"

LabelA == <<CheckMark, " ", "A", ")", " ", "T", "R", "Y", "-", "O", "N", " ", "P", "R", "E", "V", "I", "E", "W", " ", "I", "M", "A", "G", "E", " ", "I", "N", "S", "T", "R", "U", "C", "T", "I", "O", "N", "S">>
LabelB == <<CheckMark, " ", "B", ")", " ", "S", "T", "Y", "L", "I", "N", "G", " ", "R", "E", "C", "O", "M", "M", "E", "N", "D", "A", "T", "I", "O", "N", "S">>
LabelC == <<CheckMark, " ", "C", ")", " ", "J", "S", "O", "N", " ", "F", "O", "R", " ", "D", "E", "V", "E", "L", "O", "P", "E", "R", "S">>
DELIM == <<"-", "-", "-">>

FallbackInstructions == <<"A", "n", "a", "l", "y", "s", "i", "s", " ", "f", "a", "i", "l", "e", "d", " ", "t", "o", " ", "p", "r", "o", "d", "u", "c", "e", " ", "i", "n", "s", "t", "r", "u", "c", "t", "i", "o", "n", "s", ".">>
FallbackStyling == <<"N", "o", " ", "s", "t", "y", "l", "i", "n", "g", " ", "a", "d", "v", "i", "c", "e", " ", "a", "v", "a", "i", "l", "a", "b", "l", "e", ".">>

\* the characters String.prototype.trim removes
WhiteSpace == { " ", "\n", "\t", "\r" }

\* the places at or after from where sub occurs in s
Occurrences(s, sub, from) ==
    { i \in from..(Len(s) - Len(sub) + 1) :
        s[i] = sub[1] /\ SubSeq(s, i, i + Len(sub) - 1) = sub }

\* the first place at or after from where sub occurs in s, 0 when there is none
IndexOf(s, sub, from) ==
    LET occ == Occurrences(s, sub, from)
    IN  IF occ = {} THEN 0 ELSE CHOOSE i \in occ : \A j \in occ : i <= j

\* s.trim()
Trim(s) ==
    LET keep == { i \in 1..Len(s) : s[i] \notin WhiteSpace }
    IN  IF keep = {} THEN <<>>
        ELSE SubSeq(s, CHOOSE i \in keep : \A j \in keep : i <= j,
                       CHOOSE i \in keep : \A j \in keep : j <= i)

\* mutant: the capture runs to the last delimiter of the text
CaptureUntilDelim_Greedy(text, label) ==
    LET at == IndexOf(text, label, 1)
        start == at + Len(label)
        occ == Occurrences(text, DELIM, start)
        stop == IF at = 0 \/ occ = {} THEN 0 ELSE CHOOSE i \in occ : \A j \in occ : j <= i
    IN  IF at = 0 \/ stop = 0 THEN Null ELSE Some(SubSeq(text, start, stop - 1))

\* text.match(/label([\s\S]*?)---/): group 1 of the leftmost match, which
\* starts at the first label and ends before the first delimiter after it
CaptureUntilDelim(text, label) ==
    LET at == IndexOf(text, label, 1)
        start == at + Len(label)
        stop == IF at = 0 THEN 0 ELSE IndexOf(text, DELIM, start)
    IN  IF at = 0 \/ stop = 0 THEN Null ELSE Some(SubSeq(text, start, stop - 1))

\* mutant: the last capture stops at a delimiter too, when there is one
CaptureUntilEnd_StopsAtDelim(text, label) ==
    LET at == IndexOf(text, label, 1)
        stop == IF at = 0 THEN 0 ELSE IndexOf(text, DELIM, at + Len(label))
    IN  IF at = 0 THEN Null
        ELSE Some(SubSeq(text, at + Len(label), IF stop = 0 THEN Len(text) ELSE stop - 1))

\* text.match(/label([\s\S]*?)$/): group 1 runs from the first label to the
\* end of the input ($ without the m flag matches there only)
CaptureUntilEnd(text, label) ==
    LET at == IndexOf(text, label, 1)
    IN  IF at = 0 THEN Null ELSE Some(SubSeq(text, at + Len(label), Len(text)))

\* mutant: a parse that gives up every section when one is missing
parseAnalysisResult_AllOrNothing(text) ==
    LET instructionsMatch == CaptureUntilDelim(text, LabelA)
        stylingMatch == CaptureUntilDelim(text, LabelB)
        jsonMatch == CaptureUntilEnd(text, LabelC)
    IN  IF instructionsMatch # Null /\ stylingMatch # Null /\ jsonMatch # Null
        THEN [instructions |-> Trim(instructionsMatch[1]),
              styling |-> Trim(stylingMatch[1]),
              technicalJson |-> Some(Trim(jsonMatch[1]))]
        ELSE [instructions |-> FallbackInstructions,
              styling |-> FallbackStyling,
              technicalJson |-> Null]

parseAnalysisResult(text) ==
    LET instructionsMatch == CaptureUntilDelim(text, LabelA)
        stylingMatch == CaptureUntilDelim(text, LabelB)
        jsonMatch == CaptureUntilEnd(text, LabelC)
    IN  [instructions |-> IF instructionsMatch # Null THEN Trim(instructionsMatch[1])
                          ELSE FallbackInstructions,
         styling |-> IF stylingMatch # Null THEN Trim(stylingMatch[1])
                     ELSE FallbackStyling,
         technicalJson |-> IF jsonMatch # Null THEN Some(Trim(jsonMatch[1])) ELSE Null]

\* texts of the instruction and styling sections: empty, padded, holding a
\* run of dashes, ending in a dash, holding the label of a later section
SectionTexts ==
    { <<>>,
      <<"\n", " ", "x", " ", "y", "\n">>,
      <<"x", "-", "-", "-", "y">>,
      <<"\n", "x", "-">>,
      <<"x">> \o LabelC \o <<"y", "\n">> }

\* texts of the JSON section
JsonTexts ==
    { <<>>,
      <<"\n", "{", "}", "\n">>,
      <<" ", "{", "-", "-", "-", "}">> }

\* an analysis text by its make-up: each label and delimiter is there or not
AnalysisShapes ==
    [hasA : BOOLEAN, a : SectionTexts, delimA : BOOLEAN,
     hasB : BOOLEAN, b : SectionTexts, delimB : BOOLEAN,
     hasC : BOOLEAN, c : JsonTexts]

Render(p) ==
    (IF p.hasA THEN LabelA ELSE <<>>) \o p.a \o (IF p.delimA THEN DELIM ELSE <<>>)
    \o (IF p.hasB THEN LabelB ELSE <<>>) \o p.b \o (IF p.delimB THEN DELIM ELSE <<>>)
    \o (IF p.hasC THEN LabelC ELSE <<>>) \o p.c

\* parseAnalysisResult applied to the text of make-up p
ParseAnalysisResult(p) ==
    /\ pc = "idle"
    /\ kind' = "parse"
    /\ req' = [shape |-> p, text |-> Render(p)]
    /\ outcome' = Some(parseAnalysisResult(Render(p)))
    /\ pc' = "done"
    /\ UNCHANGED <<impl, calls, replies, caught, attemptedModel>>

NextParse == \E p \in AnalysisShapes : ParseAnalysisResult(p) /\ UNCHANGED appVars

SpecParse == Init /\ [][NextParse]_vars

----------------------------------------------------------------------------
(* Aspect ratio classifier (utils.ts), in IEEE-754 double arithmetic *)

\* largest width and height enumerated, largest factor of a rescaling
MaxDim == 16
MaxScale == 3

\* zero and the negative numbers down to -MaxInvalid are enumerated as well
MaxInvalid == 2

\* bits of the significand of a Number
MantissaBits == 53

\* A non-negative Number is [m, e]: the natural number written by the bits m
\* (most significant first) times 2^e; zero has no bits.

StripZeros(m) ==
    LET ones == { i \in 1..Len(m) : m[i] = 1 }
    IN  IF ones = {} THEN <<>>
        ELSE SubSeq(m, CHOOSE i \in ones : \A j \in ones : i <= j, Len(m))

Zeros(n) == [i \in 1..n |-> 0]

PadTo(m, n) == Zeros(n - Len(m)) \o m

\* m + 1
Increment(m) ==
    LET zeros == { i \in 1..Len(m) : m[i] = 0 }
        last == CHOOSE i \in zeros : \A j \in zeros : j <= i
    IN  IF zeros = {} THEN <<1>> \o Zeros(Len(m))
        ELSE SubSeq(m, 1, last - 1) \o <<1>> \o Zeros(Len(m) - last)

\* a < b for natural numbers in bits
NatLess(a, b) ==
    LET n == IF Len(a) > Len(b) THEN Len(a) ELSE Len(b)
        pa == PadTo(a, n)
        pb == PadTo(b, n)
        diff == { i \in 1..n : pa[i] # pb[i] }
    IN  diff # {} /\ pa[CHOOSE i \in diff : \A j \in diff : i <= j] = 0

\* a - b for bit sequences of one length, a >= b: a place borrows when the
\* bits after it are less in a than in b
SubBits(a, b) ==
    [i \in 1..Len(a) |->
        LET borrow == IF NatLess(SubSeq(a, i + 1, Len(a)), SubSeq(b, i + 1, Len(b)))
                      THEN 1 ELSE 0
        IN  (a[i] - b[i] - borrow) % 2]

\* round to nearest, ties to even, to MantissaBits significant bits
RoundToDouble(x) ==
    LET m == StripZeros(x.m)
    IN  IF Len(m) <= MantissaBits THEN [m |-> m, e |-> x.e]
        ELSE LET keep == SubSeq(m, 1, MantissaBits)
                 rest == SubSeq(m, MantissaBits + 1, Len(m))
                 half == rest[1] = 1
                 sticky == \E i \in 2..Len(rest) : rest[i] = 1
                 odd == keep[MantissaBits] = 1
             IN  [m |-> IF half /\ (sticky \/ odd) THEN Increment(keep) ELSE keep,
                  e |-> x.e + Len(rest)]

\* x and y written with one exponent
Aligned(x, y) ==
    LET e == IF x.e < y.e THEN x.e ELSE y.e
    IN  [x |-> x.m \o Zeros(x.e - e), y |-> y.m \o Zeros(y.e - e), e |-> e]

\* x < y
DoubleLess(x, y) ==
    LET al == Aligned(x, y)
    IN  NatLess(al.x, al.y)

\* Math.abs(x - y): the exact difference, rounded
AbsDiff(x, y) ==
    LET al == Aligned(x, y)
        n == IF Len(al.x) > Len(al.y) THEN Len(al.x) ELSE Len(al.y)
        px == PadTo(al.x, n)
        py == PadTo(al.y, n)
    IN  IF x = y THEN [m |-> <<>>, e |-> x.e]
        ELSE RoundToDouble([m |-> IF NatLess(px, py) THEN SubBits(py, px) ELSE SubBits(px, py),
                            e |-> al.e])

\* a + b for bit sequences of one length, one bit longer: a place receives a
\* carry when a later place has both bits and every place between has one
AddBits(a, b) ==
    LET x == <<0>> \o a
        y == <<0>> \o b
    IN  [i \in 1..Len(x) |->
            LET carry == IF \E j \in (i + 1)..Len(x) :
                                /\ x[j] = 1 /\ y[j] = 1
                                /\ \A k \in (i + 1)..(j - 1) : x[k] + y[k] >= 1
                         THEN 1 ELSE 0
            IN  (x[i] + y[i] + carry) % 2]

\* x + y: the exact sum, rounded
Sum(x, y) ==
    LET al == Aligned(x, y)
        n == IF Len(al.x) > Len(al.y) THEN Len(al.x) ELSE Len(al.y)
    IN  RoundToDouble([m |-> AddBits(PadTo(al.x, n), PadTo(al.y, n)), e |-> al.e])

\* w and h scaled by powers of two until h <= w < 2h; k is the power taken out
RECURSIVE Normalised(_, _, _)
Normalised(w, h, k) ==
    IF w < h THEN Normalised(2 * w, h, k - 1)
    ELSE IF w >= 2 * h THEN Normalised(w, 2 * h, k + 1)
    ELSE [w |-> w, h |-> h, k |-> k]

\* 2^i modulo h for i up to 3 * 18, as a product of three powers that fit
Pow2Mod(i, h) ==
    LET a == IF i < 18 THEN i ELSE 18
        b == IF i - a < 18 THEN i - a ELSE 18
        c == i - a - b
    IN  (((((2 ^ a) % h) * ((2 ^ b) % h)) % h) * ((2 ^ c) % h)) % h

\* the next n bits of the quotient of remainder r by h (long division: the
\* remainder before bit i is r * 2^(i-1) modulo h), then one bit that tells
\* whether anything is left
QuotientBits(r, h, n) ==
    [i \in 1..(n + 1) |->
        IF i <= n THEN (IF 2 * ((r * Pow2Mod(i - 1, h)) % h) >= h THEN 1 ELSE 0)
        ELSE IF (r * Pow2Mod(n, h)) % h # 0 THEN 1 ELSE 0]

\* w / h for positive integers: the quotient, correctly rounded
Divide(w, h) ==
    LET nz == Normalised(w, h, 0)
    IN  RoundToDouble([m |-> <<1>> \o QuotientBits(nz.w - nz.h, nz.h, MantissaBits + 1),
                       e |-> nz.k - (MantissaBits + 2)])

AspectRatioTargets ==
    << [id |-> "1:1", value |-> [m |-> <<1>>, e |-> 0]],
       [id |-> "3:4", value |-> Divide(3, 4)],
       [id |-> "9:16", value |-> Divide(9, 16)],
       [id |-> "4:3", value |-> Divide(4, 3)],
       [id |-> "16:9", value |-> Divide(16, 9)] >>

\* w / h for all integers: NaN for 0 / 0, an infinity for w / 0, else a
\* finite Number with its sign and its magnitude
Quotient(w, h) ==
    IF h = 0
    THEN [class |-> IF w = 0 THEN "nan" ELSE "inf", neg |-> w < 0,
          abs |-> [m |-> <<>>, e |-> 0]]
    ELSE [class |-> "fin", neg |-> (w < 0) # (h < 0),
          abs |-> IF w = 0 THEN [m |-> <<>>, e |-> 0]
                  ELSE Divide(IF w < 0 THEN -w ELSE w, IF h < 0 THEN -h ELSE h)]

\* mutant: the ratio is taken one pixel too wide
AspectOf_OnePixelWider(width, height) == Quotient(width + 1, height)

\* const ratio = width / height
AspectOf(width, height) == Quotient(width, height)

\* Math.abs(value - ratio) for a positive target value
Distance(value, ratio) ==
    [class |-> ratio.class,
     abs |-> IF ratio.class # "fin" THEN [m |-> <<>>, e |-> 0]
             ELSE IF ratio.neg THEN Sum(value, ratio.abs)
             ELSE AbsDiff(value, ratio.abs)]

\* x < y for two distances: false with NaN, and for two infinities
DistanceLess(x, y) ==
    /\ x.class = "fin"
    /\ y.class # "nan"
    /\ y.class = "inf" \/ DoubleLess(x.abs, y.abs)

\* targets.reduce((prev, curr) => ...) from the second target on
RECURSIVE ReduceClosest(_, _, _)
ReduceClosest(ratio, i, prev) ==
    IF i > Len(AspectRatioTargets) THEN prev
    ELSE LET curr == AspectRatioTargets[i]
         IN  IF DistanceLess(Distance(curr.value, ratio), Distance(prev.value, ratio))
             THEN ReduceClosest(ratio, i + 1, curr)
             ELSE ReduceClosest(ratio, i + 1, prev)

getClosestAspectRatio(width, height) ==
    ReduceClosest(AspectOf(width, height), 2, AspectRatioTargets[1]).id

\* dimensions of an image: every pair up to MaxDim, three photo formats,
\* and the pairs with a zero or a negative number
ImageDimensions ==
    [width : (-MaxInvalid)..MaxDim, height : (-MaxInvalid)..MaxDim]
    \cup { [width |-> 1000, height |-> 1000],
           [width |-> 1080, height |-> 1920],
           [width |-> 800, height |-> 600] }

\* getClosestAspectRatio applied to the dimensions d
GetClosestAspectRatio(d) ==
    /\ pc = "idle"
    /\ kind' = "classify"
    /\ req' = d
    /\ outcome' = Some(getClosestAspectRatio(d.width, d.height))
    /\ pc' = "done"
    /\ UNCHANGED <<impl, calls, replies, caught, attemptedModel>>

NextClassify == \E d \in ImageDimensions : GetClosestAspectRatio(d) /\ UNCHANGED appVars

SpecClassify == Init /\ [][NextClassify]_vars

----------------------------------------------------------------------------
(* Model Response Extractor on its own: extractImage applied to a response *)

\* parts of a candidate and candidates of a response that are enumerated
MaxParts == 2
MaxCandidates == 2

\* a text part, a PNG payload, a payload declared as JPEG
ResponseParts ==
    { TextPart(MsgQuota), InlinePart(DataQQ),
      [inlineData |-> [mimeType |-> "image/jpeg", data |-> DataZg]] }

\* a candidate without content (blocked), or with up to MaxParts parts
ResponseCandidates ==
    { [finishReason |-> "SAFETY"] }
    \cup { Candidate(ps) : ps \in SeqsUpTo(ResponseParts, MaxParts) }

\* a response without candidates, or with up to MaxCandidates candidates
ExtractResponses ==
    { [promptFeedback |-> "blocked"] }
    \cup { [candidates |-> cs] : cs \in SeqsUpTo(ResponseCandidates, MaxCandidates) }

\* extractImage applied to the response resp
ExtractImage(resp) ==
    /\ pc = "idle"
    /\ kind' = "extract"
    /\ req' = resp
    /\ outcome' = Some(extractImage(resp))
    /\ pc' = "done"
    /\ UNCHANGED <<impl, calls, replies, caught, attemptedModel>>

NextExtract == \E resp \in ExtractResponses : ExtractImage(resp) /\ UNCHANGED appVars

SpecExtract == Init /\ [][NextExtract]_vars

----------------------------------------------------------------------------
(* The try-on flow of the application (App.tsx, fetch client, /api/analyze) *)

\* pending image probes that are enumerated at a time
MaxProbes == 1

AlertPrefix == <<"S", "o", "m", "e", "t", "h", "i", "n", "g", " ", "w", "e", "n", "t", " ", "w", "r", "o", "n", "g", " ", "d", "u", "r", "i", "n", "g", " ", "t", "h", "e", " ", "A", "I", " ", "p", "r", "o", "c", "e", "s", "s", ":", " ">>
FailedToAnalyze == <<"F", "a", "i", "l", "e", "d", " ", "t", "o", " ", "a", "n", "a", "l", "y", "z", "e", " ", "t", "r", "y", "-", "o", "n", " ", "r", "e", "q", "u", "e", "s", "t">>
FailedToFetch == <<"F", "a", "i", "l", "e", "d", " ", "t", "o", " ", "f", "e", "t", "c", "h">>

\* photos the user can pick: their base64 content and their dimensions
UserFiles ==
    { [name |-> "portrait.jpg", base64 |-> DataZg, width |-> 1080, height |-> 1920],
      [name |-> "square.jpg", base64 |-> DataQQ, width |-> 1000, height |-> 1000] }

\* getClosestAspectRatio(width, height) for the dimensions of each photo
RecommendedRatio == [f \in UserFiles |-> getClosestAspectRatio(f.width, f.height)]

\* the implementations that answer the fetch client
Backends == { "server", "api" }

\* response.text of the analysis model: absent, empty, without any label,
\* with the instruction section only, with the three sections
AnalysisTexts ==
    { Null,
      Some(<<>>),
      Some(<<"n", "o">>),
      Some(LabelA \o <<"\n", "a", "\n">> \o DELIM),
      Some(LabelA \o <<"\n", "a", "\n">> \o DELIM \o LabelB \o <<" ", "b", "\n">> \o DELIM
           \o LabelC \o <<" ", "{", "}">>) }

AnalysisResponses == [text : AnalysisTexts]

\* remote failures that are enumerated in the try-on flow
TryOnErrors ==
    { [status |-> Some(403), code |-> Absent, message |-> Some(MsgPermission)],
      [status |-> Some(404), code |-> Absent, message |-> Absent],
      [status |-> Some(429), code |-> Absent, message |-> Some(MsgQuota)],
      [status |-> Absent, code |-> Absent, message |-> Some(<<>>)] }

\* the request of the analysis
AnalyzeCall(r) ==
    [model |-> FLASH_CHAT,
     contents |-> [parts |-> << [text |-> <<"Y", "o", "u", " ", "a", "r", "e", " ", "V", "i", "b", "e", "f", "I", "T", " ", "D", "e", "s", "i", "g", "n", "e", "r">>],
                                [inlineData |-> [mimeType |-> "image/jpeg", data |-> r.userImageBase64]],
                                [text |-> <<"T", "h", "i", "s", " ", "i", "s", " ", "t", "h", "e", " ", "U", "s", "e", "r", " ", "P", "h", "o", "t", "o", ".">>],
                                [inlineData |-> [mimeType |-> "image/jpeg", data |-> r.clothImageBase64]],
                                [text |-> <<"T", "h", "i", "s", " ", "i", "s", " ", "t", "h", "e", " ", "C", "l", "o", "t", "h", "i", "n", "g", " ", "P", "h", "o", "t", "o", ".", " ", "P", "e", "r", "f", "o", "r", "m", " ", "t", "h", "e", " ", "a", "n", "a", "l", "y", "s", "i", "s", ".">>] >>]]

HttpAnalyzeFinish(text) == [status |-> 200, body |-> [text |-> text]]

HttpAnalyzeError(e) ==
    [status |-> 500, body |-> [error |-> OrElse(e.message, FailedToAnalyze)]]

\* the handler has sent its response and the client has read it
ExchangeOver ==
    /\ impl' = "none"
    /\ kind' = "none"
    /\ req' = Null
    /\ pc' = "idle"
    /\ calls' = <<>>
    /\ replies' = <<>>
    /\ caught' = Null
    /\ attemptedModel' = ""
    /\ outcome' = Null
    /\ http' = Null

Backend == <<impl, kind, req, pc, calls, replies, caught, attemptedModel, outcome>>

\* handleUserFile, up to the await of the probe
HandleUserFile(f) ==
    /\ ui.step = 1
    /\ Len(probes) < MaxProbes
    /\ ui' = [ui EXCEPT !.userFile = Some(f), !.userPreview = Some(f.name)]
    /\ probes' = Append(probes, f)
    /\ UNCHANGED <<run, http>>
    /\ UNCHANGED Backend

\* handleUserFile, after getImageDimensions resolves for the k-th pending probe
ProbeResolved(k) ==
    /\ k \in DOMAIN probes
    /\ ui' = [ui EXCEPT !.selectedAspectRatio = RecommendedRatio[probes[k]]]
    /\ probes' = SubSeq(probes, 1, k - 1) \o SubSeq(probes, k + 1, Len(probes))
    /\ UNCHANGED <<run, http>>
    /\ UNCHANGED Backend

\* handleUserFile, after getImageDimensions rejects
ProbeRejected(k) ==
    /\ k \in DOMAIN probes
    /\ probes' = SubSeq(probes, 1, k - 1) \o SubSeq(probes, k + 1, Len(probes))
    /\ UNCHANGED <<ui, run, http>>
    /\ UNCHANGED Backend

HandleClothFile(f) ==
    /\ ui.step = 2
    /\ ui' = [ui EXCEPT !.clothFile = Some(f), !.clothPreview = Some(f.name)]
    /\ UNCHANGED <<run, http, probes>>
    /\ UNCHANGED Backend

\* mutant: the Next buttons are enabled without a file
NextStep_AlwaysEnabled ==
    /\ ui.step \in { 1, 2 }
    /\ ui' = [ui EXCEPT !.step = IF ui.step + 1 < 4 THEN ui.step + 1 ELSE 4]
    /\ UNCHANGED <<run, http, probes>>
    /\ UNCHANGED Backend

\* the Next buttons of steps 1 and 2, disabled without their file
NextStep ==
    /\ \/ ui.step = 1 /\ ui.userFile # Null
       \/ ui.step = 2 /\ ui.clothFile # Null
    /\ ui' = [ui EXCEPT !.step = IF ui.step + 1 < 4 THEN ui.step + 1 ELSE 4]
    /\ UNCHANGED <<run, http, probes>>
    /\ UNCHANGED Backend

\* the Back buttons of steps 2 and 3
PrevStep ==
    /\ ui.step \in { 2, 3 }
    /\ ui' = [ui EXCEPT !.step = IF ui.step - 1 > 1 THEN ui.step - 1 ELSE 1]
    /\ UNCHANGED <<run, http, probes>>
    /\ UNCHANGED Backend

\* the Change buttons of step 3: back to step 1 or to step 2
ChangeFile(s) ==
    /\ ui.step = 3
    /\ ui' = [ui EXCEPT !.step = s]
    /\ UNCHANGED <<run, http, probes>>
    /\ UNCHANGED Backend

SelectAspectRatio(ratio) ==
    /\ ui.step = 3
    /\ ui' = [ui EXCEPT !.selectedAspectRatio = ratio]
    /\ UNCHANGED <<run, http, probes>>
    /\ UNCHANGED Backend

SelectSize(size) ==
    /\ ui.step = 3
    /\ ui' = [ui EXCEPT !.selectedSize = size]
    /\ UNCHANGED <<run, http, probes>>
    /\ UNCHANGED Backend

\* mutant: Start Over also puts the aspect ratio back to its initial value
HandleStartOver_ResetsRatio ==
    /\ \/ ui.step \in { 2, 3 }
       \/ ui.step = 4 /\ ~ui.isAnalyzing /\ ~ui.isGenerating /\ ui.analysisResult # Null
    /\ ui' = [ui EXCEPT !.step = 1, !.userFile = Null, !.clothFile = Null,
                        !.userPreview = Null, !.clothPreview = Null,
                        !.analysisResult = Null, !.generatedImage = Null,
                        !.isAnalyzing = FALSE, !.isGenerating = FALSE,
                        !.selectedAspectRatio = "1:1"]
    /\ UNCHANGED <<run, http, probes>>
    /\ UNCHANGED Backend

\* Start Over (header, steps 2 and 3) and Start New Try-On (result view)
HandleStartOver ==
    /\ \/ ui.step \in { 2, 3 }
       \/ ui.step = 4 /\ ~ui.isAnalyzing /\ ~ui.isGenerating /\ ui.analysisResult # Null
    /\ ui' = [ui EXCEPT !.step = 1, !.userFile = Null, !.clothFile = Null,
                        !.userPreview = Null, !.clothPreview = Null,
                        !.analysisResult = Null, !.generatedImage = Null,
                        !.isAnalyzing = FALSE, !.isGenerating = FALSE]
    /\ UNCHANGED <<run, http, probes>>
    /\ UNCHANGED Backend

\* handleGenerateProcess, up to the first await: the files, the aspect ratio
\* and the size are the ones of the render the button belongs to
HandleGenerateProcess ==
    /\ ui.step = 3
    /\ IF ui.userFile = Null \/ ui.clothFile = Null
       THEN UNCHANGED <<ui, run, http>> /\ UNCHANGED Backend
       ELSE /\ ui' = [ui EXCEPT !.step = 4, !.isAnalyzing = TRUE,
                               !.analysisResult = Null, !.generatedImage = Null]
            /\ run' = [NoRun EXCEPT !.at = "readUser",
                                    !.userFile = ui.userFile, !.clothFile = ui.clothFile,
                                    !.aspectRatio = ui.selectedAspectRatio,
                                    !.imageSize = ui.selectedSize]
            /\ ExchangeOver
    /\ UNCHANGED probes

\* the catch and finally blocks of handleGenerateProcess, entered at stage
\* run.at with an error whose message (or toString()) is errorMsg
RunFails(errorMsg) ==
    /\ run' = [run EXCEPT !.at = "failed", !.failedAt = run.at,
                          !.alert = Some(AlertPrefix \o errorMsg),
                          !.analyzeResponse = IF run.at = "analyze" THEN outcome ELSE @,
                          !.analyzeReplies = IF run.at = "analyze" THEN replies ELSE @]
    /\ ui' = [ui EXCEPT !.step = 3, !.isAnalyzing = FALSE, !.isGenerating = FALSE]

\* fileToBase64(userFile) resolves
ReadUserResolved ==
    /\ run.at = "readUser"
    /\ run' = [run EXCEPT !.at = "readCloth", !.userBase64 = Some(run.userFile[1].base64)]
    /\ UNCHANGED <<ui, http, probes>>
    /\ UNCHANGED Backend

\* fileToBase64(clothFile) resolves and the analysis is requested
ReadClothResolved ==
    /\ run.at = "readCloth"
    /\ run' = [run EXCEPT !.at = "analyze", !.clothBase64 = Some(run.clothFile[1].base64)]
    /\ http' = Some([path |-> "/analyze",
                     body |-> [userImageBase64 |-> run.userBase64[1],
                               clothImageBase64 |-> run.clothFile[1].base64]])
    /\ UNCHANGED <<ui, probes>>
    /\ UNCHANGED Backend

\* a FileReader fails: the rejection value is its error event
ReadRejected ==
    /\ run.at \in { "readUser", "readCloth" }
    /\ RunFails(<<"[", "o", "b", "j", "e", "c", "t", " ", "P", "r", "o", "g", "r", "e", "s", "s", "E", "v", "e", "n", "t", "]">>)
    /\ UNCHANGED <<http, probes>>
    /\ UNCHANGED Backend

\* fetch rejects: the backend is not reached
FetchRejected ==
    /\ run.at \in { "analyze", "generate" }
    /\ http # Null /\ pc = "idle"
    /\ RunFails(FailedToFetch)
    /\ ExchangeOver
    /\ UNCHANGED probes

\* Entry of the analysis handler: the only request is issued
AnalyzeStart(i) ==
    /\ pc = "idle"
    /\ http # Null /\ http[1].path = "/analyze"
    /\ impl' = i
    /\ kind' = "analyze"
    /\ req' = http[1].body
    /\ calls' = <<AnalyzeCall(http[1].body)>>
    /\ pc' = "primary"
    /\ UNCHANGED <<replies, caught, attemptedModel, outcome>>
    /\ UNCHANGED appVars

\* The analysis request resolves
AnalyzeResolved(resp) ==
    /\ pc = "primary" /\ kind = "analyze"
    /\ replies' = Append(replies, Resolved(resp))
    /\ Finish(HttpAnalyzeFinish(resp.text))
    /\ UNCHANGED <<impl, kind, req, calls, caught, attemptedModel>>
    /\ UNCHANGED appVars

\* The analysis request rejects with error e
AnalyzeRejected(e) ==
    /\ pc = "primary" /\ kind = "analyze"
    /\ replies' = Append(replies, Rejected(e))
    /\ caught' = Some(e)
    /\ Finish(HttpAnalyzeError(e))
    /\ UNCHANGED <<impl, kind, req, calls, attemptedModel>>
    /\ UNCHANGED appVars

\* mutant: the instructions handed to the generation are the styling advice
GenerationPrompt_Styling(parsed) == parsed.styling

\* mutant: the placeholder of the parser is not sent as a prompt
GenerationPrompt_NoPlaceholder(parsed) ==
    IF parsed.instructions = FallbackInstructions THEN <<>> ELSE parsed.instructions

\* the first argument of generateTryOnImage
GenerationPrompt(parsed) == parsed.instructions

\* the body of the fetch of generateTryOnImage
GenerateRequest(parsed) ==
    [prompt |-> GenerationPrompt(parsed),
     userImageBase64 |-> run.userBase64[1],
     aspectRatio |-> run.aspectRatio,
     imageSize |-> run.imageSize]

\* mutant: a failed analysis is followed by a generation without instructions
AnalyzeFailed_GeneratesAnyway(errorMsg) ==
    /\ run' = [run EXCEPT !.at = "generate", !.failedAt = "analyze",
                          !.alert = Some(AlertPrefix \o errorMsg),
                          !.analyzeResponse = outcome, !.analyzeReplies = replies,
                          !.generateRequests = Append(@, [prompt |-> <<>>,
                                                         userImageBase64 |-> run.userBase64[1],
                                                         aspectRatio |-> run.aspectRatio,
                                                         imageSize |-> run.imageSize])]
    /\ ui' = [ui EXCEPT !.isAnalyzing = FALSE, !.isGenerating = TRUE]
    /\ ExchangeOver

\* analyzeTryOnRequest throws: handleGenerateProcess goes to its catch block
AnalyzeFailed(errorMsg) ==
    /\ RunFails(errorMsg)
    /\ ExchangeOver

\* handleGenerateProcess after the answer to /analyze has arrived
AnalyzeAnswered ==
    /\ run.at = "analyze"
    /\ kind = "analyze" /\ pc = "done"
    /\ LET response == outcome[1]
       IN  IF response.status # 200
           THEN AnalyzeFailed(OrElse(Some(response.body.error), <<"F", "a", "i", "l", "e", "d", " ", "t", "o", " ", "a", "n", "a", "l", "y", "z", "e", " ", "t", "r", "y", "-", "o", "n", " ", "r", "e", "q", "u", "e", "s", "t", " ", "f", "r", "o", "m", " ", "b", "a", "c", "k", "e", "n", "d">>))
           ELSE IF response.body.text = Null
           THEN /\ run' = [run EXCEPT !.at = "failed", !.failedAt = "parse",
                                      !.alert = Some(AlertPrefix \o <<"C", "a", "n", "n", "o", "t", " ", "r", "e", "a", "d", " ", "p", "r", "o", "p", "e", "r", "t", "i", "e", "s", " ", "o", "f", " ", "u", "n", "d", "e", "f", "i", "n", "e", "d", " ", "(", "r", "e", "a", "d", "i", "n", "g", " ", "'", "m", "a", "t", "c", "h", "'", ")">>),
                                      !.analyzeResponse = outcome, !.analyzeReplies = replies]
                /\ ui' = [ui EXCEPT !.step = 3, !.isAnalyzing = FALSE, !.isGenerating = FALSE]
                /\ ExchangeOver
           ELSE LET parsed == parseAnalysisResult(response.body.text[1])
                IN  /\ ui' = [ui EXCEPT !.analysisResult = Some(parsed),
                                        !.isAnalyzing = FALSE, !.isGenerating = TRUE]
                    /\ run' = [run EXCEPT !.at = "generate",
                                          !.analyzeResponse = outcome,
                                          !.analyzeReplies = replies,
                                          !.rawAnalysis = response.body.text,
                                          !.generateRequests = Append(@, GenerateRequest(parsed))]
                    /\ impl' = "none" /\ kind' = "none" /\ req' = Null /\ pc' = "idle"
                    /\ calls' = <<>> /\ replies' = <<>> /\ caught' = Null
                    /\ attemptedModel' = "" /\ outcome' = Null
                    /\ http' = Some([path |-> "/generate-image", body |-> GenerateRequest(parsed)])
    /\ UNCHANGED probes

\* the generation handler takes the request of the fetch client
GenerateRequested(i) ==
    /\ http # Null /\ http[1].path = "/generate-image"
    /\ GenerateImageStart(i, http[1].body)
    /\ UNCHANGED appVars

\* handleGenerateProcess after the answer to /generate-image has arrived
GenerateAnswered ==
    /\ run.at = "generate"
    /\ kind = "generate" /\ pc = "done"
    /\ LET response == outcome[1]
       IN  IF response.status # 200
           THEN RunFails(OrElse(Some(response.body.error), <<"F", "a", "i", "l", "e", "d", " ", "t", "o", " ", "g", "e", "n", "e", "r", "a", "t", "e", " ", "i", "m", "a", "g", "e", " ", "f", "r", "o", "m", " ", "b", "a", "c", "k", "e", "n", "d">>))
           ELSE /\ ui' = [ui EXCEPT !.generatedImage = Some(response.body.imageUrl),
                                   !.isAnalyzing = FALSE, !.isGenerating = FALSE]
                /\ run' = [run EXCEPT !.at = "done"]
    /\ ExchangeOver
    /\ UNCHANGED probes

NextTryOn ==
    \/ \E f \in UserFiles : HandleUserFile(f) /\ UNCHANGED sideVars
    \/ \E k \in 1..MaxProbes : ProbeResolved(k) /\ UNCHANGED sideVars
    \/ \E k \in 1..MaxProbes : ProbeRejected(k) /\ UNCHANGED sideVars
    \/ \E f \in { [name |-> "shirt.jpg", base64 |-> DataQQ] } : HandleClothFile(f) /\ UNCHANGED sideVars
    \/ NextStep /\ UNCHANGED sideVars
    \/ PrevStep /\ UNCHANGED sideVars
    \/ \E s \in { 1, 2 } : ChangeFile(s) /\ UNCHANGED sideVars
    \/ \E ratio \in AspectRatios : SelectAspectRatio(ratio) /\ UNCHANGED sideVars
    \/ \E size \in ImageSizes : SelectSize(size) /\ UNCHANGED sideVars
    \/ HandleStartOver /\ UNCHANGED sideVars
    \/ HandleGenerateProcess /\ UNCHANGED sideVars
    \/ ReadUserResolved /\ UNCHANGED sideVars
    \/ ReadClothResolved /\ UNCHANGED sideVars
    \/ ReadRejected /\ UNCHANGED sideVars
    \/ FetchRejected /\ UNCHANGED sideVars
    \/ \E i \in Backends : AnalyzeStart(i)
    \/ \E resp \in AnalysisResponses : AnalyzeResolved(resp)
    \/ \E e \in TryOnErrors : AnalyzeRejected(e)
    \/ AnalyzeAnswered /\ UNCHANGED sideVars
    \/ \E i \in Backends : GenerateRequested(i)
    \/ \E resp \in ImageResponses : GenerateImagePrimaryResolved(resp) /\ UNCHANGED appVars
    \/ \E e \in TryOnErrors : GenerateImagePrimaryRejected(e) /\ UNCHANGED appVars
    \/ \E resp \in ImageResponses : GenerateImageFallbackResolved(resp) /\ UNCHANGED appVars
    \/ \E e \in TryOnErrors : GenerateImageFallbackRejected(e) /\ UNCHANGED appVars
    \/ GenerateAnswered /\ UNCHANGED sideVars

SpecTryOn == Init /\ [][NextTryOn]_vars

----------------------------------------------------------------------------
(* The chat widget (ChatWidget.tsx); chatWithBot, fileToBase64 and
   transcribeAudio are promises that settle in any order *)

\* most messages the list grows to
MaxMessages == 4
\* most audio uploads under way at a time
MaxAudios == 1

SorryText == <<"S", "o", "r", "r", "y", ",", " ", "s", "o", "m", "e", "t", "h", "i", "n", "g", " ", "w", "e", "n", "t", " ", "w", "r", "o", "n", "g", ".">>
NoResponseText == <<"I", " ", "c", "o", "u", "l", "d", "n", "'", "t", " ", "g", "e", "n", "e", "r", "a", "t", "e", " ", "a", " ", "r", "e", "s", "p", "o", "n", "s", "e", ".">>
FailedToTranscribeAudio == <<"F", "a", "i", "l", "e", "d", " ", "t", "o", " ", "t", "r", "a", "n", "s", "c", "r", "i", "b", "e", " ", "a", "u", "d", "i", "o">>

\* what the user types; what chatWithBot resolves with (data.text); the
\* messages of the errors chatWithBot and transcribeAudio reject with; the
\* audio files; what transcribeAudio resolves with
InputTexts == { <<>>, <<" ">>, <<"a">>, <<"b">> }
ReplyTexts == { Null, Some(<<>>), Some(<<"o", "k">>) }
WidgetErrors == { MsgQuota, FailedToFetch }
AudioFiles == { [type |-> "audio/webm", base64 |-> DataQQ] }
Transcriptions == { Null, Some(<<"b">>) }

\* s without its k-th element
Remove(s, k) == SubSeq(s, 1, k - 1) \o SubSeq(s, k + 1, Len(s))

\* a ChatMessage; its timestamp (Date.now()) is read by no code
ChatMessage(role, text) == [role |-> role, text |-> text]

\* messages.map(m => ({ role: m.role, parts: [{ text: m.text }] }))
HistoryOf(messages) ==
    [i \in DOMAIN messages |->
        [role |-> messages[i].role, parts |-> <<[text |-> messages[i].text]>>]]

\* the floating button
ToggleOpen ==
    chat' = [chat EXCEPT !.isOpen = ~@]

\* onChange of the text input
SetInputValue(v) ==
    /\ chat.isOpen
    /\ chat' = [chat EXCEPT !.inputValue = v]

\* the Search and Think checkboxes
SetUseSearch ==
    /\ chat.isOpen
    /\ chat' = [chat EXCEPT !.useSearch = ~@]

SetUseThinking ==
    /\ chat.isOpen
    /\ chat' = [chat EXCEPT !.useThinking = ~@]

\* handleSend up to its await, called by the send button (disabled while the
\* input is blank or isLoading) or by the Enter key of the text input
HandleSend(via) ==
    /\ chat.isOpen
    /\ via = "button" => Trim(chat.inputValue) # <<>> /\ ~chat.isLoading
    /\ IF Trim(chat.inputValue) = <<>>
       THEN UNCHANGED chat
       ELSE /\ Len(chat.messages) + Len(chat.sends) + 2 <= MaxMessages
            /\ chat' = [chat EXCEPT
                   !.messages = Append(@, ChatMessage("user", chat.inputValue)),
                   !.inputValue = <<>>,
                   !.isLoading = TRUE,
                   !.sends = Append(@, [history |-> HistoryOf(chat.messages),
                                        message |-> chat.inputValue,
                                        useSearch |-> chat.useSearch,
                                        useThinking |-> chat.useThinking])]

\* mutant: an answer without text adds no message
ChatResolved_SkipsEmpty(k, responseText) ==
    /\ k \in DOMAIN chat.sends
    /\ chat' = [chat EXCEPT
           !.messages = IF Truthy(responseText)
                        THEN Append(@, ChatMessage("model", responseText[1]))
                        ELSE @,
           !.sends = Remove(@, k),
           !.isLoading = FALSE]

\* the k-th awaited chatWithBot resolves with responseText
ChatResolved(k, responseText) ==
    /\ k \in DOMAIN chat.sends
    /\ chat' = [chat EXCEPT
           !.messages = Append(@, ChatMessage("model", OrElse(responseText, NoResponseText))),
           !.sends = Remove(@, k),
           !.isLoading = FALSE]

\* mutant: the failure notice takes the place of the last message
ChatRejected_ReplacesLast(k, e) ==
    /\ k \in DOMAIN chat.sends
    /\ chat' = [chat EXCEPT
           !.messages = Append(SubSeq(@, 1, Len(@) - 1), ChatMessage("model", SorryText)),
           !.sends = Remove(@, k),
           !.caught = Some(e),
           !.isLoading = FALSE]

\* the k-th awaited chatWithBot rejects with an error of message e
ChatRejected(k, e) ==
    /\ k \in DOMAIN chat.sends
    /\ chat' = [chat EXCEPT
           !.messages = Append(@, ChatMessage("model", SorryText)),
           !.sends = Remove(@, k),
           !.caught = Some(e),
           !.isLoading = FALSE]

\* handleAudioInput up to its first await
HandleAudioInput(file) ==
    /\ chat.isOpen
    /\ Len(chat.audios) < MaxAudios
    /\ chat' = [chat EXCEPT
           !.isLoading = TRUE,
           !.audios = Append(@, [file |-> file, at |-> "read", base64 |-> Null])]

\* fileToBase64 resolves: transcribeAudio is called
AudioRead(k) ==
    /\ k \in DOMAIN chat.audios /\ chat.audios[k].at = "read"
    /\ chat' = [chat EXCEPT
           !.audios[k].at = "transcribe",
           !.audios[k].base64 = Some(chat.audios[k].file.base64)]

\* transcribeAudio resolves with transcription
AudioTranscribed(k, transcription) ==
    /\ k \in DOMAIN chat.audios /\ chat.audios[k].at = "transcribe"
    /\ chat' = [chat EXCEPT
           !.inputValue = OrElse(transcription, <<>>),
           !.audios = Remove(@, k),
           !.isLoading = FALSE]

\* fileToBase64 or transcribeAudio rejects with an error of message e
AudioRejected(k, e) ==
    /\ k \in DOMAIN chat.audios
    /\ chat' = [chat EXCEPT
           !.alert = Some(FailedToTranscribeAudio),
           !.caught = Some(e),
           !.audios = Remove(@, k),
           !.isLoading = FALSE]

\* the state the widget does not touch
NotChat == <<ui, run, http, probes, edits, slots, latest, entry>>

NextWidget ==
    \/ ToggleOpen /\ UNCHANGED NotChat /\ UNCHANGED Backend
    \/ \E v \in InputTexts : SetInputValue(v) /\ UNCHANGED NotChat /\ UNCHANGED Backend
    \/ SetUseSearch /\ UNCHANGED NotChat /\ UNCHANGED Backend
    \/ SetUseThinking /\ UNCHANGED NotChat /\ UNCHANGED Backend
    \/ \E via \in { "button", "enter" } : HandleSend(via) /\ UNCHANGED NotChat /\ UNCHANGED Backend
    \/ \E k \in 1..MaxMessages, t \in ReplyTexts : ChatResolved(k, t) /\ UNCHANGED NotChat /\ UNCHANGED Backend
    \/ \E k \in 1..MaxMessages, e \in WidgetErrors : ChatRejected(k, e) /\ UNCHANGED NotChat /\ UNCHANGED Backend
    \/ \E f \in AudioFiles : HandleAudioInput(f) /\ UNCHANGED NotChat /\ UNCHANGED Backend
    \/ \E k \in 1..MaxAudios : AudioRead(k) /\ UNCHANGED NotChat /\ UNCHANGED Backend
    \/ \E k \in 1..MaxAudios, t \in Transcriptions : AudioTranscribed(k, t) /\ UNCHANGED NotChat /\ UNCHANGED Backend
    \/ \E k \in 1..MaxAudios, e \in WidgetErrors : AudioRejected(k, e) /\ UNCHANGED NotChat /\ UNCHANGED Backend

SpecWidget == Init /\ [][NextWidget]_vars

\* a remote call of the widget returns or fails
WidgetSettles ==
    \/ \E k \in 1..MaxMessages, t \in ReplyTexts : ChatResolved(k, t) /\ UNCHANGED NotChat /\ UNCHANGED Backend
    \/ \E k \in 1..MaxMessages, e \in WidgetErrors : ChatRejected(k, e) /\ UNCHANGED NotChat /\ UNCHANGED Backend
    \/ \E k \in 1..MaxAudios : AudioRead(k) /\ UNCHANGED NotChat /\ UNCHANGED Backend
    \/ \E k \in 1..MaxAudios, t \in Transcriptions : AudioTranscribed(k, t) /\ UNCHANGED NotChat /\ UNCHANGED Backend
    \/ \E k \in 1..MaxAudios, e \in WidgetErrors : AudioRejected(k, e) /\ UNCHANGED NotChat /\ UNCHANGED Backend

\* the widget with the Search and Think checkboxes left alone
NextSend ==
    \/ ToggleOpen /\ UNCHANGED NotChat /\ UNCHANGED Backend
    \/ \E v \in InputTexts : SetInputValue(v) /\ UNCHANGED NotChat /\ UNCHANGED Backend
    \/ \E via \in { "button", "enter" } : HandleSend(via) /\ UNCHANGED NotChat /\ UNCHANGED Backend
    \/ \E f \in AudioFiles : HandleAudioInput(f) /\ UNCHANGED NotChat /\ UNCHANGED Backend
    \/ WidgetSettles

\* the widget when every remote call eventually returns
SpecWidgetFair == Init /\ [][NextSend]_vars /\ WF_vars(WidgetSettles)

----------------------------------------------------------------------------
(* Requests the server handles side by side (server.js): every request has
   the locals of its own handler call; the remote calls of the handlers
   settle in any order *)

\* most requests the server has accepted
MaxSlots == 2

SlotGenRequests ==
    { [prompt |-> p, userImageBase64 |-> DataZg, aspectRatio |-> "1:1", imageSize |-> "1K"] :
          p \in Prompts }
SlotChatRequests ==
    { [history |-> <<>>, message |-> <<"b">>, useSearch |-> FALSE, useThinking |-> TRUE] }
SlotImageResponses ==
    { [promptFeedback |-> "blocked"],
      [candidates |-> <<Candidate(<<InlinePart(DataQQ)>>)>>],
      [candidates |-> <<Candidate(<<TextPart(MsgQuota), InlinePart(DataZg)>>)>> ] }

\* what a remote call of a handler of the given kind can settle with
SlotReplies(k) ==
    { Resolved(resp) : resp \in IF k = "generate" THEN SlotImageResponses ELSE ChatResponses }
    \cup { Rejected(e) : e \in TryOnErrors }

\* the locals of a handler that has issued its primary request
SlotStarted(k, r) ==
    [kind |-> k, req |-> r, pc |-> "primary",
     calls |-> <<IF k = "generate" THEN PrimaryImageCall(r) ELSE PrimaryChatCall(r)>>,
     replies |-> <<>>, caught |-> Null,
     attemptedModel |-> IF k = "generate" THEN PRO_IMAGE ELSE "",
     outcome |-> Null]

\* res.json / res.status(500).json: the handler has answered
SlotDone(s, o) == [s EXCEPT !.pc = "done", !.outcome = Some(o)]

\* app.post('/api/generate-image') from the settlement of a remote call on
GenerateSettled(s, reply) ==
    LET t == [s EXCEPT !.replies = Append(@, reply)]
        catch(e) ==
            IF IsFallbackError(e)
            THEN [t EXCEPT !.caught = Some(e), !.attemptedModel = FLASH_IMAGE,
                           !.calls = Append(@, FallbackImageCall(s.req)),
                           !.pc = "fallback"]
            ELSE SlotDone([t EXCEPT !.caught = Some(e)], HttpGenError(e))
    IN  IF s.pc = "primary"
        THEN IF reply.ok
             THEN LET image == extractImage(reply.value)
                  IN  IF Truthy(image)
                      THEN SlotDone(t, HttpGenFinish(image, s.attemptedModel))
                      ELSE catch(NoImageError)
             ELSE catch(reply.error)
        ELSE IF reply.ok
             THEN SlotDone(t, HttpGenFinish(extractImage(reply.value), s.attemptedModel))
             ELSE SlotDone(t, HttpGenError(reply.error))

\* app.post('/api/chat') from the settlement of a remote call on
ChatSettled(s, reply) ==
    LET t == [s EXCEPT !.replies = Append(@, reply)]
    IN  IF reply.ok
        THEN SlotDone(t, HttpChatFinish(reply.value.text))
        ELSE IF s.pc = "primary" /\ ChatFallsBack("server", reply.error)
        THEN [t EXCEPT !.caught = Some(reply.error),
                       !.calls = Append(@, FallbackChatCall(s.req)),
                       !.pc = "fallback"]
        ELSE SlotDone([t EXCEPT !.caught = IF s.pc = "primary" THEN Some(reply.error) ELSE @],
                      HttpChatError(reply.error))

Settled(s, reply) ==
    IF s.kind = "generate" THEN GenerateSettled(s, reply) ELSE ChatSettled(s, reply)

\* the server accepts a request while others are under way
SlotStart(k, r) ==
    /\ Len(slots) < MaxSlots
    /\ slots' = Append(slots, SlotStarted(k, r))

\* mutant: attemptedModel is one variable of the module, shared by the
\* generation handlers
SlotSettles_SharedModel(k, reply) ==
    /\ k \in DOMAIN slots
    /\ slots[k].pc \in { "primary", "fallback" }
    /\ reply \in SlotReplies(slots[k].kind)
    /\ LET after == Settled(slots[k], reply)
       IN  slots' = [j \in DOMAIN slots |->
                        IF j = k THEN after
                        ELSE IF slots[j].kind = "generate" /\ slots[k].kind = "generate"
                        THEN [slots[j] EXCEPT !.attemptedModel = after.attemptedModel]
                        ELSE slots[j]]

\* a remote call of the k-th request settles
SlotSettles(k, reply) ==
    /\ k \in DOMAIN slots
    /\ slots[k].pc \in { "primary", "fallback" }
    /\ reply \in SlotReplies(slots[k].kind)
    /\ slots' = [slots EXCEPT ![k] = Settled(slots[k], reply)]

NotSlots == <<ui, run, http, probes, chat, edits, latest, entry>>

NextConcurrent ==
    \/ \E r \in SlotGenRequests : SlotStart("generate", r) /\ UNCHANGED NotSlots /\ UNCHANGED Backend
    \/ \E r \in SlotChatRequests : SlotStart("chat", r) /\ UNCHANGED NotSlots /\ UNCHANGED Backend
    \/ \E k \in 1..MaxSlots, reply \in SlotReplies("generate") \cup SlotReplies("chat") :
           SlotSettles(k, reply) /\ UNCHANGED NotSlots /\ UNCHANGED Backend

SpecConcurrent == Init /\ [][NextConcurrent]_vars

----------------------------------------------------------------------------
(* Quick edit of the result (App.tsx handleQuickEdit, editImage of the fetch
   client) and the application as a whole: the wizard, the quick edit and
   the chat turns of the widget side by side *)

\* most quick edits awaited at a time
MaxEdits == 2
\* most chat messages, most quick edits awaited at a time, while the wizard
\* is watched together with the chat
MaxAppMessages == 1
MaxAppEdits == 1

FailedToEditFromBackend == <<"F", "a", "i", "l", "e", "d", " ", "t", "o", " ", "e", "d", "i", "t", " ", "i", "m", "a", "g", "e", " ", "f", "r", "o", "m", " ", "b", "a", "c", "k", "e", "n", "d">>
EditFailed == <<"E", "d", "i", "t", " ", "f", "a", "i", "l", "e", "d">>

\* the answers of POST /edit-image that are enumerated
EditAnswers ==
    { HttpEditFinish(Some(DataUriPrefix \o DataZg)),
      HttpEditFinish(Null),
      HttpEditError([status |-> Some(429), code |-> Absent, message |-> Some(MsgQuota)]) }

\* s.split(',')[1]
AfterComma(s) ==
    LET commas == { i \in 1..Len(s) : s[i] = "," }
        first == CHOOSE i \in commas : \A j \in commas : i <= j
        later == { i \in commas : i > first }
        second == IF later = {} THEN Len(s) + 1
                  ELSE CHOOSE i \in later : \A j \in later : i <= j
    IN  SubSeq(s, first + 1, second - 1)

\* the result view is rendered
ResultView ==
    ui.step = 4 /\ ~ui.isAnalyzing /\ ~ui.isGenerating /\ ui.analysisResult # Null

\* onChange of the edit input
SetEditPrompt(v) ==
    /\ ResultView
    /\ ui' = [ui EXCEPT !.editPrompt = v]
    /\ UNCHANGED edits

\* handleQuickEdit up to its await, called by the Edit button (disabled while
\* isEditing or without a prompt) or by the Enter key of the edit input
HandleQuickEdit(via) ==
    /\ ResultView
    /\ via = "button" => ~ui.isEditing /\ ui.editPrompt # <<>>
    /\ IF ui.generatedImage = Null \/ ui.editPrompt = <<>>
       THEN UNCHANGED <<ui, edits>>
       ELSE /\ Len(edits) < MaxEdits
            /\ ui' = [ui EXCEPT !.isEditing = TRUE]
            /\ edits' = Append(edits, [imageBase64 |-> AfterComma(ui.generatedImage[1]),
                                       prompt |-> ui.editPrompt,
                                       aspectRatio |-> ui.selectedAspectRatio])

\* mutant: a failed edit clears the edit prompt
EditCatch_ClearsPrompt(k, e) ==
    /\ ui' = [ui EXCEPT !.isEditing = FALSE, !.editPrompt = <<>>]
    /\ edits' = Remove(edits, k)

\* the catch and finally blocks of handleQuickEdit, entered with an error of
\* message e while the k-th edit is awaited: alert(EditFailed) tells the user
\* and leaves no state behind
EditCatch(k, e) ==
    /\ ui' = [ui EXCEPT !.isEditing = FALSE]
    /\ edits' = Remove(edits, k)

\* the k-th awaited editImage gets the answer of the backend
EditAnswered(k, response) ==
    /\ k \in DOMAIN edits
    /\ IF response.status # 200
       THEN EditCatch(k, OrElse(Some(response.body.error), FailedToEditFromBackend))
       ELSE /\ ui' = [ui EXCEPT !.generatedImage = Some(response.body.imageUrl),
                               !.editPrompt = <<>>, !.isEditing = FALSE]
            /\ edits' = Remove(edits, k)

\* the fetch of the k-th awaited editImage rejects
EditFetchRejected(k) ==
    /\ k \in DOMAIN edits
    /\ EditCatch(k, FailedToFetch)

\* the state the wizard and its backend leave alone, the state a quick edit
\* leaves alone
Beside == <<chat, edits, slots, latest, entry>>
NotEdit == <<run, http, probes, chat, slots, latest, entry>>

\* what is enumerated while the whole application is watched
AppUserFiles == { f \in UserFiles : f.name = "portrait.jpg" }
AppAnalysisResponses ==
    { [text |-> Some(LabelA \o <<"\n", "a", "\n">> \o DELIM)] }
AppErrors == { e \in TryOnErrors : e.status = Some(403) }
AppImageResponses ==
    { [promptFeedback |-> "blocked"], [candidates |-> <<Candidate(<<InlinePart(DataQQ)>>)>>] }

\* a chat turn of the widget is possible
ChatTurn == Len(chat.messages) + Len(chat.sends) < MaxAppMessages

\* the wizard, its backend exchange and the quick edit
NextEdit ==
    \/ \E f \in AppUserFiles : HandleUserFile(f) /\ UNCHANGED Beside
    \/ \E k \in 1..MaxProbes : ProbeResolved(k) /\ UNCHANGED Beside
    \/ \E k \in 1..MaxProbes : ProbeRejected(k) /\ UNCHANGED Beside
    \/ \E f \in { [name |-> "shirt.jpg", base64 |-> DataQQ] } : HandleClothFile(f) /\ UNCHANGED Beside
    \/ NextStep /\ UNCHANGED Beside
    \/ PrevStep /\ UNCHANGED Beside
    \/ \E s \in { 1, 2 } : ChangeFile(s) /\ UNCHANGED Beside
    \/ \E ratio \in AspectRatios : SelectAspectRatio(ratio) /\ UNCHANGED Beside
    \/ \E size \in ImageSizes : SelectSize(size) /\ UNCHANGED Beside
    \/ HandleStartOver /\ UNCHANGED Beside
    \/ HandleGenerateProcess /\ UNCHANGED Beside
    \/ ReadUserResolved /\ UNCHANGED Beside
    \/ ReadClothResolved /\ UNCHANGED Beside
    \/ ReadRejected /\ UNCHANGED Beside
    \/ FetchRejected /\ UNCHANGED Beside
    \/ AnalyzeStart("server")
    \/ \E resp \in AppAnalysisResponses : AnalyzeResolved(resp)
    \/ \E e \in AppErrors : AnalyzeRejected(e)
    \/ AnalyzeAnswered /\ UNCHANGED Beside
    \/ GenerateRequested("server")
    \/ \E resp \in AppImageResponses : GenerateImagePrimaryResolved(resp) /\ UNCHANGED appVars
    \/ \E e \in AppErrors : GenerateImagePrimaryRejected(e) /\ UNCHANGED appVars
    \/ \E resp \in AppImageResponses : GenerateImageFallbackResolved(resp) /\ UNCHANGED appVars
    \/ \E e \in AppErrors : GenerateImageFallbackRejected(e) /\ UNCHANGED appVars
    \/ GenerateAnswered /\ UNCHANGED Beside
    \/ SetEditPrompt(<<"x">>) /\ UNCHANGED NotEdit /\ UNCHANGED Backend
    \/ \E via \in { "button", "enter" } : HandleQuickEdit(via) /\ UNCHANGED NotEdit /\ UNCHANGED Backend
    \/ \E k \in 1..MaxEdits, a \in EditAnswers : EditAnswered(k, a) /\ UNCHANGED NotEdit /\ UNCHANGED Backend
    \/ \E k \in 1..MaxEdits : EditFetchRejected(k) /\ UNCHANGED NotEdit /\ UNCHANGED Backend

SpecEdit == Init /\ [][NextEdit]_vars

\* the same with the chat turns of the widget
NextApp ==
    \/ NextEdit /\ Len(edits') <= MaxAppEdits
    \/ ToggleOpen /\ UNCHANGED NotChat /\ UNCHANGED Backend
    \/ ChatTurn /\ SetInputValue(<<"a">>) /\ UNCHANGED NotChat /\ UNCHANGED Backend
    \/ ChatTurn /\ HandleSend("button") /\ UNCHANGED NotChat /\ UNCHANGED Backend
    \/ \E k \in 1..MaxAppMessages : ChatResolved(k, Some(<<"o", "k">>)) /\ UNCHANGED NotChat /\ UNCHANGED Backend
    \/ \E k \in 1..MaxAppMessages : ChatRejected(k, MsgQuota) /\ UNCHANGED NotChat /\ UNCHANGED Backend

SpecApp == Init /\ [][NextApp]_vars

----------------------------------------------------------------------------
(* The photo and aspect-ratio selection of the wizard on its own, with the
   history variable latest kept up to date *)

\* latest after a photo is selected: its probe is the last of probes
LatestAfterPhoto == [latest EXCEPT !.live = Len(probes) + 1]

\* latest after an aspect-ratio button is clicked
LatestAfterChoice(ratio) == [ratio |-> ratio, live |-> 0]

\* latest after the k-th probe completes: the classification counts when the
\* probe is the one of the latest photo and no ratio was chosen since
LatestAfterProbe(k, loaded) ==
    [ratio |-> IF loaded /\ k = latest.live THEN RecommendedRatio[probes[k]] ELSE latest.ratio,
     live |-> IF k = latest.live THEN 0
              ELSE IF k < latest.live THEN latest.live - 1 ELSE latest.live]

NextSelect ==
    \/ \E f \in UserFiles :
           HandleUserFile(f) /\ latest' = LatestAfterPhoto /\ UNCHANGED <<chat, edits, slots, entry>>
    \/ \E k \in 1..MaxProbes :
           ProbeResolved(k) /\ latest' = LatestAfterProbe(k, TRUE) /\ UNCHANGED <<chat, edits, slots, entry>>
    \/ \E k \in 1..MaxProbes :
           ProbeRejected(k) /\ latest' = LatestAfterProbe(k, FALSE) /\ UNCHANGED <<chat, edits, slots, entry>>
    \/ \E ratio \in AspectRatios :
           SelectAspectRatio(ratio) /\ latest' = LatestAfterChoice(ratio) /\ UNCHANGED <<chat, edits, slots, entry>>
    \/ \E f \in { [name |-> "shirt.jpg", base64 |-> DataQQ] } : HandleClothFile(f) /\ UNCHANGED Beside
    \/ NextStep /\ UNCHANGED Beside
    \/ PrevStep /\ UNCHANGED Beside
    \/ \E s \in { 1, 2 } : ChangeFile(s) /\ UNCHANGED Beside
    \/ \E size \in ImageSizes : SelectSize(size) /\ UNCHANGED Beside
    \/ HandleStartOver /\ UNCHANGED Beside

SpecSelect == Init /\ [][NextSelect]_vars

----------------------------------------------------------------------------
(* Vocabulary of the properties *)

Http == impl \in {"server", "api"}

PrimaryModel == IF kind = "generate" THEN PRO_IMAGE ELSE PRO_CHAT
SecondaryModel == IF kind = "generate" THEN FLASH_IMAGE ELSE FLASH_CHAT

\* number of requests sent to model m so far
CallsTo(m) == Cardinality({ k \in DOMAIN calls : calls[k].model = m })

PrimaryAnswered == Len(replies) >= 1
PrimaryRejected == PrimaryAnswered /\ ~replies[1].ok
PrimaryResolved == PrimaryAnswered /\ replies[1].ok
SecondaryAnswered == Len(replies) >= 2
SecondaryRejected == SecondaryAnswered /\ ~replies[2].ok
SecondaryResolved == SecondaryAnswered /\ replies[2].ok

\* the message of e contains the text sub
Has(e, sub) ==
    e.message # Null /\ \E i \in 1..Len(e.message[1]) :
        /\ i + Len(sub) - 1 <= Len(e.message[1])
        /\ \A j \in 1..Len(sub) : e.message[1][i + j - 1] = sub[j]

\* e has status or code 403 / 404, or names one of the two capability texts
PermissionDenied(e) ==
    e.status = <<403>> \/ e.code = <<403>> \/ Has(e, PERMISSION_DENIED)
ModelNotFound(e) ==
    e.status = <<404>> \/ e.code = <<404>> \/ Has(e, NOT_FOUND)
CapabilityFailure(e) == PermissionDenied(e) \/ ModelNotFound(e)

\* the default text an HTTP handler answers when an error has no message
DefaultErrorText == IF kind = "generate" THEN FailedToGenerateImage ELSE FailedToChat

\* the invocation ended in a failure that carries error e: the service
\* function throws e itself, an HTTP handler answers 500 with e's message
EndsWithFailure(e) ==
    /\ pc = "done"
    /\ IF Http
       THEN /\ outcome[1].status = 500
            /\ outcome[1].body =
                 [error |-> IF e.message # Null /\ e.message[1] # <<>>
                            THEN e.message[1] ELSE DefaultErrorText]
       ELSE outcome[1] = [thrown |-> e]

----------------------------------------------------------------------------
(* Properties *)

\* C1: image generation - when the primary call resolves with a response
\* without an extractable image, the secondary model is invoked exactly once
\* before the call ends.
C1_EmptySuccessFallsBack ==
    (kind = "generate" /\ pc = "done" /\ PrimaryResolved
        /\ extractImage(replies[1].value) = Null)
    => CallsTo(FLASH_IMAGE) = 1

\* C2: image generation - when the primary call fails with status 404 or
\* 403 the secondary model is invoked exactly once, only after the primary
\* attempt completed, with a configuration that has no imageSize.
C2_CapabilityFailureFallsBack ==
    kind = "generate" =>
      /\ ~PrimaryAnswered => CallsTo(FLASH_IMAGE) = 0
      /\ (PrimaryRejected /\ replies[1].error.status \in {<<403>>, <<404>>}) =>
           /\ CallsTo(FLASH_IMAGE) = 1
           /\ Len(calls) = 2
           /\ calls[2].model = FLASH_IMAGE
           /\ "imageSize" \notin DOMAIN calls[2].config.imageConfig

C2_Witness ==
    /\ kind = "generate" /\ pc = "done"
    /\ PrimaryRejected /\ replies[1].error.status = <<404>>
    /\ CallsTo(FLASH_IMAGE) = 1

\* C3 as stated: every primary failure with status 400 ends the call
\* without a secondary attempt, the call's result being the primary failure.
C3_Status400NeverFallsBack ==
    (pc = "done" /\ PrimaryRejected /\ replies[1].error.status = <<400>>)
    => /\ CallsTo(SecondaryModel) = 0
       /\ EndsWithFailure(replies[1].error)

\* C3 amended: every primary failure whose status and code are neither 403
\* nor 404 and whose message contains neither "PERMISSION_DENIED" nor
\* "not found" ends the call at once, without a secondary attempt, the
\* call's result being the primary failure.
C3_NonCapabilityFailureIsFinal ==
    (PrimaryRejected /\ ~CapabilityFailure(replies[1].error))
    => /\ Len(calls) = 1
       /\ CallsTo(SecondaryModel) = 0
       /\ EndsWithFailure(replies[1].error)

C3_Witness ==
    /\ pc = "done" /\ PrimaryRejected
    /\ replies[1].error.status = <<400>>
    /\ ~CapabilityFailure(replies[1].error)
    /\ Http /\ kind = "generate"

\* C4: image generation - after a primary failure the secondary model is
\* attempted if and only if the status or code is 403 or 404 or the message
\* contains "PERMISSION_DENIED" or "not found".
C4_FallbackIffCapability ==
    (kind = "generate" /\ PrimaryRejected)
    => /\ (Len(calls) = 2 /\ calls[2].model = FLASH_IMAGE)
            <=> CapabilityFailure(replies[1].error)
       /\ ~CapabilityFailure(replies[1].error) => (pc = "done" /\ Len(calls) = 1)

C4_Witness ==
    /\ kind = "generate" /\ PrimaryRejected
    /\ replies[1].error.status = Null /\ replies[1].error.code = <<404>>
    /\ Len(calls) = 2

\* C5: chat, in every implementation - a permission-denied or
\* model-not-found primary failure is resolved by exactly one attempt on
\* gemini-2.5-flash, any other failure propagates immediately.
C5_ChatCapabilityFallsBack ==
    (kind = "chat" /\ pc = "done" /\ PrimaryRejected)
    => IF CapabilityFailure(replies[1].error)
       THEN CallsTo(FLASH_CHAT) = 1
       ELSE CallsTo(FLASH_CHAT) = 0 /\ EndsWithFailure(replies[1].error)

\* C6: chat - a primary success with empty or absent text ends the call:
\* the secondary model is not invoked and the empty result is the outcome.
C6_ChatEmptySuccessIsFinal ==
    (kind = "chat" /\ PrimaryResolved
        /\ (replies[1].value.text = Null \/ replies[1].value.text = <<<<>>>>))
    => /\ pc = "done"
       /\ CallsTo(FLASH_CHAT) = 0 /\ Len(calls) = 1
       /\ outcome[1] = IF Http
                       THEN [status |-> 200, body |-> [text |-> replies[1].value.text]]
                       ELSE [returned |-> replies[1].value.text]

C6_Witness ==
    /\ kind = "chat" /\ pc = "done" /\ Http
    /\ PrimaryResolved /\ replies[1].value.text = <<<<>>>>

\* C7: at most one fallback hop - the primary model is invoked exactly once
\* and first, the secondary at most once and only after the primary attempt
\* returned, no model twice, and the secondary's outcome ends the call.
C7_AtMostOneHop ==
    pc # "idle" =>
      /\ Len(calls) \in {1, 2}
      /\ calls[1].model = PrimaryModel
      /\ CallsTo(PrimaryModel) = 1
      /\ CallsTo(SecondaryModel) <= 1
      /\ Len(calls) = 2 => (calls[2].model = SecondaryModel /\ PrimaryAnswered)
      /\ pc = "primary" => (Len(calls) = 1 /\ Len(replies) = 0)
      /\ pc = "fallback" => (Len(calls) = 2 /\ Len(replies) = 1)
      /\ pc = "done" => (Len(replies) = Len(calls) /\ outcome # Null)
      /\ SecondaryAnswered => pc = "done"

C7_Witness ==
    /\ pc = "done" /\ kind = "chat"
    /\ Len(calls) = 2 /\ SecondaryRejected

\* C8: image generation that reached the fallback - when the secondary
\* attempt fails with an error the outcome carries that error; when it
\* returns without an extractable image the outcome carries the original
\* primary failure.
C8_FallbackFailureReason ==
    (kind = "generate" /\ pc = "done" /\ Len(calls) = 2)
    => /\ SecondaryRejected => EndsWithFailure(replies[2].error)
       /\ (SecondaryResolved /\ extractImage(replies[2].value) = Null)
            => EndsWithFailure(replies[1].error)

\* C9: every successful answer of the image and chat routes carries the
\* identifier of the model that produced the payload.
C9_SuccessIsTagged ==
    (pc = "done" /\ Http /\ outcome[1].status = 200)
    => /\ "model" \in DOMAIN outcome[1].body
       /\ outcome[1].body.model = (IF Len(calls) = 1 THEN PrimaryModel ELSE SecondaryModel)

\* C10: every request sent to gemini-2.5-flash-image by a generation call
\* carries the content parts of the primary request (prompt text, then the
\* user image) and a configuration holding only the same aspectRatio.
C10_DegradeRule ==
    kind = "generate" =>
      \A k \in DOMAIN calls :
        calls[k].model = FLASH_IMAGE =>
          /\ k > 1
          /\ calls[k].contents = calls[1].contents
          /\ Len(calls[k].contents.parts) = 2
          /\ calls[k].contents.parts[1] = [text |-> req.prompt]
          /\ calls[k].contents.parts[2].inlineData.data = req.userImageBase64
          /\ DOMAIN calls[k].config = {"imageConfig"}
          /\ DOMAIN calls[k].config.imageConfig = {"aspectRatio"}
          /\ calls[k].config.imageConfig.aspectRatio = calls[1].config.imageConfig.aspectRatio
          /\ calls[k].config.imageConfig.aspectRatio = req.aspectRatio

C10_Witness ==
    /\ kind = "generate" /\ Len(calls) = 2
    /\ calls[2].model = FLASH_IMAGE
    /\ req.imageSize = "4K"
    /\ "imageSize" \in DOMAIN calls[1].config.imageConfig

\* C13 (as stated): an edit whose request is refused for lack of permission or
\* because the model is not found makes one attempt on a secondary model
\* before it ends
C13_EditFallsBack ==
    (kind = "edit" /\ pc = "done" /\ PrimaryRejected /\ CapabilityFailure(replies[1].error))
        => Len(calls) = 2

\* C14: a transcription issues exactly one request, to gemini-2.5-flash, and
\* ends with the answer to that request, whatever the answer is
C14_TranscribeSingleShot ==
    kind = "transcribe" =>
        /\ Len(calls) = 1
        /\ calls[1].model = FLASH_CHAT
        /\ Len(replies) <= 1
        /\ (pc = "done" <=> Len(replies) = 1)

\* a transcription refused with status 404 has ended after its only request
C14_Witness ==
    /\ kind = "transcribe" /\ pc = "done"
    /\ PrimaryRejected /\ replies[1].error.status = Some(404)
    /\ Len(calls) = 1

CarriesSearch(call) == Truthy(call.config.tools) /\ call.config.tools[1] = <<"googleSearch">>
CarriesThinking(call) == "thinkingConfig" \in DOMAIN call.config

\* C16: the primary chat request carries the search capability iff useSearch
\* and the thinking budget (32768) iff useThinking; the fallback chat request
\* carries the search capability iff useSearch and never a thinking budget
C16_ChatConfiguration ==
    (kind = "chat" /\ calls # <<>>) =>
        /\ calls[1].model = PRO_CHAT
        /\ CarriesSearch(calls[1]) <=> req.useSearch
        /\ Truthy(calls[1].config.tools) <=> req.useSearch
        /\ CarriesThinking(calls[1]) <=> req.useThinking
        /\ CarriesThinking(calls[1]) => calls[1].config.thinkingConfig.thinkingBudget = 32768
        /\ Len(calls) = 2 =>
              /\ calls[2].model = FLASH_CHAT
              /\ CarriesSearch(calls[2]) <=> req.useSearch
              /\ Truthy(calls[2].config.tools) <=> req.useSearch
              /\ ~CarriesThinking(calls[2])

\* thinking without search, and the fallback request has been issued
C16_Witness ==
    /\ kind = "chat" /\ Len(calls) = 2
    /\ req.useThinking /\ ~req.useSearch
    /\ CarriesThinking(calls[1]) /\ ~CarriesSearch(calls[1])

\* res is s without its leading and trailing white space
IsTrimOf(res, s) ==
    /\ res = <<>> \/ (res[1] \notin WhiteSpace /\ res[Len(res)] \notin WhiteSpace)
    /\ \E lead \in 0..(Len(s) - Len(res)) :
          /\ \A i \in 1..lead : s[i] \in WhiteSpace
          /\ \A i \in 1..Len(res) : s[lead + i] = res[i]
          /\ \A i \in (lead + Len(res) + 1)..Len(s) : s[i] \in WhiteSpace

\* the parse has run on the text of make-up req.shape
Parsed == kind = "parse" /\ pc = "done"

\* label A, text, delimiter, label B, text, delimiter, label C, text
WellFormed(p) == p.hasA /\ p.delimA /\ p.hasB /\ p.delimB /\ p.hasC

\* t holds no run of three dashes and does not end in a dash
DashFree(t) ==
    /\ \A i \in 1..(Len(t) - 2) : ~(t[i] = "-" /\ t[i + 1] = "-" /\ t[i + 2] = "-")
    /\ t = <<>> \/ t[Len(t)] # "-"

\* s holds the label somewhere
Holds(s, label) ==
    \E i \in 1..(Len(s) - Len(label) + 1) : \A k \in 1..Len(label) : s[i + k - 1] = label[k]

\* C17 (as stated): on a well-formed text the three fields are the trimmed
\* texts of the three sections, for every choice of section texts
C17_WellFormedRecoversSections ==
    (Parsed /\ WellFormed(req.shape)) =>
        /\ IsTrimOf(outcome[1].instructions, req.shape.a)
        /\ IsTrimOf(outcome[1].styling, req.shape.b)
        /\ outcome[1].technicalJson # Null
        /\ IsTrimOf(outcome[1].technicalJson[1], req.shape.c)

\* C17 (amended): the same, for instruction and styling texts that hold no
\* run of three dashes, do not end in a dash and hold no label of a later
\* section; the JSON text is free
C17_PlainSectionsRecovered ==
    (/\ Parsed /\ WellFormed(req.shape)
     /\ DashFree(req.shape.a) /\ DashFree(req.shape.b)
     /\ ~Holds(req.shape.a, LabelB) /\ ~Holds(req.shape.a, LabelC)
     /\ ~Holds(req.shape.b, LabelC)) =>
        /\ IsTrimOf(outcome[1].instructions, req.shape.a)
        /\ IsTrimOf(outcome[1].styling, req.shape.b)
        /\ outcome[1].technicalJson # Null
        /\ IsTrimOf(outcome[1].technicalJson[1], req.shape.c)

\* a well-formed text with padded sections and dashes in its JSON has been parsed
C17_Witness ==
    /\ Parsed /\ WellFormed(req.shape)
    /\ req.shape.a = <<"\n", " ", "x", " ", "y", "\n">>
    /\ req.shape.b = <<"\n", " ", "x", " ", "y", "\n">>
    /\ req.shape.c = <<" ", "{", "-", "-", "-", "}">>
    /\ outcome[1].instructions = <<"x", " ", "y">>
    /\ outcome[1].technicalJson = Some(<<"{", "-", "-", "-", "}">>)

Classified == kind = "classify" /\ pc = "done" /\ req.width > 0 /\ req.height > 0

\* the five targets as fractions, in the order of the enumeration
ExactTargets ==
    << [id |-> "1:1", n |-> 1, d |-> 1], [id |-> "3:4", n |-> 3, d |-> 4],
       [id |-> "9:16", n |-> 9, d |-> 16], [id |-> "4:3", n |-> 4, d |-> 3],
       [id |-> "16:9", n |-> 16, d |-> 9] >>

Abs(x) == IF x < 0 THEN -x ELSE x

\* |t.n/t.d - w/h| < |u.n/u.d - w/h| in exact arithmetic
Closer(t, u, w, h) == Abs(t.n * h - t.d * w) * u.d < Abs(u.n * h - u.d * w) * t.d

\* id is the nearest target of w/h, the first of the nearest on a tie
IsNearestFirst(id, w, h) ==
    \E i \in DOMAIN ExactTargets :
        /\ ExactTargets[i].id = id
        /\ \A j \in DOMAIN ExactTargets : ~Closer(ExactTargets[j], ExactTargets[i], w, h)
        /\ \A j \in 1..(i - 1) : Closer(ExactTargets[i], ExactTargets[j], w, h)

\* C19 (as stated): the classifier returns the target nearest to
\* width/height, and on an exact tie the first of the tied targets in the
\* order 1:1, 3:4, 9:16, 4:3, 16:9
C19_NearestTargetFirstOnTie ==
    Classified => IsNearestFirst(outcome[1], req.width, req.height)

\* C19, the three examples alone
C19_Examples ==
    Classified =>
        /\ (req.width = 1000 /\ req.height = 1000) => outcome = Some("1:1")
        /\ (req.width = 1080 /\ req.height = 1920) => outcome = Some("9:16")
        /\ (req.width = 800 /\ req.height = 600) => outcome = Some("4:3")

\* C20: the classifier returns one of the five aspect ratios, and the same
\* one for the dimensions multiplied by any factor
C20_ScaleInvariant ==
    Classified =>
        /\ outcome[1] \in { "1:1", "3:4", "9:16", "4:3", "16:9" }
        /\ \A k \in 1..MaxScale :
              getClosestAspectRatio(k * req.width, k * req.height) = outcome[1]

\* 7 x 6, halfway between 1:1 and 4:3, has been classified, and so would 21 x 18
C20_Witness ==
    /\ Classified
    /\ req.width = 7 /\ req.height = 6
    /\ getClosestAspectRatio(21, 18) = outcome[1]

\* analyzeTryOnRequest has thrown in the current try-on run
AnalysisFailed == run.failedAt = "analyze"

\* a request to /generate-image waits for its answer
GenerationPending == http # Null /\ http[1].path = "/generate-image"

\* C11: in a try-on run whose analysis failed no generation is requested and
\* no image model is called, and the alert shows the failure of the analysis
\* (the message of the remote error, or the default text of the handler)
C11_FailedAnalysisAborts ==
    /\ AnalysisFailed =>
          /\ run.at = "failed"
          /\ run.generateRequests = <<>>
          /\ ~GenerationPending
          /\ kind # "generate"
          /\ CallsTo(PRO_IMAGE) = 0 /\ CallsTo(FLASH_IMAGE) = 0
          /\ run.alert # Null
          /\ run.analyzeReplies # <<>> =>
                /\ ~run.analyzeReplies[1].ok
                /\ run.alert[1] = AlertPrefix \o
                       (IF Truthy(run.analyzeReplies[1].error.message)
                        THEN run.analyzeReplies[1].error.message[1]
                        ELSE FailedToAnalyze)
          /\ run.analyzeReplies = <<>> => run.alert[1] = AlertPrefix \o FailedToFetch
    /\ (run.analyzeReplies # <<>> /\ ~run.analyzeReplies[1].ok) => AnalysisFailed

\* the analysis model refused the request (403, PERMISSION_DENIED) and the
\* run has ended with that message in its alert
C11_Witness ==
    /\ AnalysisFailed
    /\ run.analyzeReplies # <<>>
    /\ run.analyzeReplies[1].error.status = Some(403)
    /\ run.alert = Some(AlertPrefix \o MsgPermission)
    /\ ui.step = 3

\* C12: a try-on run requests at most one generation, only once its analysis
\* has succeeded and been parsed; the prompt is the instructions field parsed
\* from the analysis text of the run, and the user image, the aspect ratio
\* and the quality are the ones the run was started with (run.userFile,
\* run.aspectRatio, run.imageSize), whatever is selected by now
C12_GenerationOrdering ==
    /\ Len(run.generateRequests) <= 1
    /\ (kind = "generate" \/ GenerationPending) => Len(run.generateRequests) = 1
    /\ Len(run.generateRequests) = 1 =>
          /\ run.analyzeReplies # <<>> /\ run.analyzeReplies[1].ok
          /\ run.analyzeResponse[1].status = 200
          /\ run.rawAnalysis # Null
          /\ run.generateRequests[1].prompt
                 = parseAnalysisResult(run.rawAnalysis[1]).instructions
          /\ run.generateRequests[1].userImageBase64 = run.userFile[1].base64
          /\ run.generateRequests[1].aspectRatio = run.aspectRatio
          /\ run.generateRequests[1].imageSize = run.imageSize
          /\ run.at = "generate" =>
                ui.analysisResult = Some(parseAnalysisResult(run.rawAnalysis[1]))
    /\ GenerationPending => http[1].body = run.generateRequests[1]
    /\ kind = "generate" =>
          /\ req = run.generateRequests[1]
          /\ \A k \in DOMAIN calls :
                /\ calls[k].contents.parts[1] = [text |-> run.generateRequests[1].prompt]
                /\ calls[k].contents.parts[2].inlineData.data
                       = run.generateRequests[1].userImageBase64
                /\ calls[k].config.imageConfig.aspectRatio = run.aspectRatio
          /\ calls[1].config.imageConfig.imageSize = run.imageSize

\* the secondary image model has been called in a run whose prompt is the
\* parsed instruction text, after a probe changed the selected aspect ratio
C12_Witness ==
    /\ kind = "generate" /\ pc = "fallback" /\ Len(calls) = 2
    /\ run.rawAnalysis # Null /\ Holds(run.rawAnalysis[1], LabelB)
    /\ run.generateRequests[1].prompt = <<"a">>
    /\ ui.selectedAspectRatio # run.aspectRatio
\* the classifier has run on dimensions with a zero or a negative number
ClassifiedInvalid ==
    kind = "classify" /\ pc = "done" /\ (req.width <= 0 \/ req.height <= 0)

\* C21 (as stated): when width or height is zero or negative, the classifier
\* fails with InvalidInput instead of returning an aspect ratio
C21_InvalidDimensionsRejected ==
    ClassifiedInvalid => outcome = Some("InvalidInput")

\* extractImage has run on the response req
Extracted == kind = "extract" /\ pc = "done"

\* the parts of the first candidate of the response, none without one
FirstParts(response) ==
    IF "candidates" \notin DOMAIN response \/ response.candidates = <<>> THEN <<>>
    ELSE IF "content" \notin DOMAIN response.candidates[1] THEN <<>>
    ELSE response.candidates[1].content.parts

HasPayload(part) == "inlineData" \in DOMAIN part

\* C22: extractImage looks at the first candidate only: the result is null
\* when there is no candidate or the first candidate has no part with an
\* inline payload (whatever later candidates hold); otherwise it is
\* data:image/png;base64,<payload> for the first part with a payload, the
\* text parts before it being skipped
C22_FirstCandidateFirstPayload ==
    Extracted =>
        LET parts == FirstParts(req)
        IN  IF \A i \in DOMAIN parts : ~HasPayload(parts[i])
            THEN outcome[1] = Null
            ELSE \E i \in DOMAIN parts :
                    /\ HasPayload(parts[i])
                    /\ \A j \in 1..(i - 1) : ~HasPayload(parts[j])
                    /\ outcome[1] =
                         Some(<<"d", "a", "t", "a", ":", "i", "m", "a", "g", "e", "/", "p", "n", "g",
                                ";", "b", "a", "s", "e", "6", "4", ",">> \o parts[i].inlineData.data)

\* the first candidate holds only text, the second one a payload: null
C22_Witness ==
    /\ Extracted
    /\ "candidates" \in DOMAIN req
    /\ req.candidates = <<Candidate(<<TextPart(MsgQuota)>>), Candidate(<<InlinePart(DataQQ)>>)>>
    /\ outcome[1] = Null

\* the places of s where sub starts, at or after from
Places(s, sub, from) ==
    { i \in from..(Len(s) - Len(sub) + 1) : \A k \in 1..Len(sub) : s[i + k - 1] = sub[k] }

Least(S) == CHOOSE i \in S : \A j \in S : i <= j

\* field is what the section of the label gives: with the label in the text
\* and a delimiter somewhere after it, the trimmed text between the first
\* label and the first delimiter after it; else the fallback
DelimitedField(text, label, field, fallback) ==
    LET labels == Places(text, label, 1)
        delims == IF labels = {} THEN {} ELSE Places(text, DELIM, Least(labels) + Len(label))
    IN  IF labels # {} /\ delims # {}
        THEN IsTrimOf(field, SubSeq(text, Least(labels) + Len(label), Least(delims) - 1))
        ELSE field = fallback

\* C27: instructions (styling) is the extracted text exactly when label A (B)
\* is in the text with a --- somewhere after it, and then it is the text up
\* to the first --- only; with the label but no --- after it the field is its
\* fallback string. technicalJson depends on no delimiter: it is the trimmed
\* text from label C to the end of the input
C27_DelimiterDependence ==
    Parsed =>
        /\ DelimitedField(req.text, LabelA, outcome[1].instructions, FallbackInstructions)
        /\ DelimitedField(req.text, LabelB, outcome[1].styling, FallbackStyling)
        /\ LET labels == Places(req.text, LabelC, 1)
           IN  labels # {} =>
                 /\ outcome[1].technicalJson # Null
                 /\ IsTrimOf(outcome[1].technicalJson[1],
                             SubSeq(req.text, Least(labels) + Len(LabelC), Len(req.text)))

\* a text whose only delimiter lies inside the instruction section, with
\* dashes in its JSON: instructions stops at its dashes, styling runs to the
\* dashes of the JSON, the JSON keeps its dashes
C27_Witness ==
    /\ Parsed
    /\ req.shape.hasA /\ req.shape.a = <<"x", "-", "-", "-", "y">> /\ ~req.shape.delimA
    /\ req.shape.hasB /\ req.shape.b = <<>> /\ ~req.shape.delimB
    /\ req.shape.hasC /\ req.shape.c = <<" ", "{", "-", "-", "-", "}">>
    /\ outcome[1].instructions = <<"x">>
    /\ outcome[1].styling = LabelC \o <<" ", "{">>
    /\ outcome[1].technicalJson = Some(<<"{", "-", "-", "-", "}">>)

\* C28: whenever analyzeTryOnRequest has returned a text, the try-on run has
\* issued its generation request, also for a text without an instruction
\* section; the prompt of that request is then the fallback string of the
\* parser
C28_PlaceholderInstructionsAreSent ==
    run.rawAnalysis # Null =>
        /\ Len(run.generateRequests) = 1
        /\ ~Holds(run.rawAnalysis[1], LabelA)
              => run.generateRequests[1].prompt = FallbackInstructions

\* the analysis answered "no", and the generation handler has sent the
\* fallback string to the primary image model as the prompt
C28_Witness ==
    /\ run.rawAnalysis = Some(<<"n", "o">>)
    /\ run.at = "generate"
    /\ kind = "generate" /\ pc = "primary"
    /\ req.prompt = FallbackInstructions
    /\ calls[1].contents.parts[1].text = FallbackInstructions


\* s is a prefix of t
IsPrefix(s, t) == Len(s) <= Len(t) /\ SubSeq(t, 1, Len(s)) = s

\* C24: the message list of the chat widget is append-only: every step
\* (sends, responses and failures, overlapping or not) leaves the list it
\* found as a prefix of the list it leaves, so no message is removed,
\* reordered or edited once appended
C24_HistoryAppendOnly == [][IsPrefix(chat.messages, chat.messages')]_vars

\* C24 witness: two sends overlapped, one of them failed, and four messages
\* have been appended
C24_Witness ==
    /\ Len(chat.messages) = 4
    /\ chat.messages[1].role = "user" /\ chat.messages[2].role = "user"
    /\ chat.messages[3].text = SorryText
    /\ chat.messages[4].text = <<"o", "k">>
    /\ chat.sends = <<>>

\* C29: at most one chat request is outstanding at any time, so the history
\* of every request is empty or ends with a model turn and the message list
\* alternates user turn, model turn
C29_SingleRequestInFlight ==
    /\ Len(chat.sends) <= 1
    /\ \A k \in DOMAIN chat.sends :
           LET history == chat.sends[k].history
           IN  history = <<>> \/ history[Len(history)].role = "model"
    /\ \A i \in DOMAIN chat.messages :
           chat.messages[i].role = IF i % 2 = 1 THEN "user" ELSE "model"

\* C30: isLoading is true exactly while a chat request or an audio upload
\* (the file read and the transcription request) is under way
C30_LoadingIffInFlight ==
    chat.isLoading <=> (chat.sends # <<>> \/ chat.audios # <<>>)

\* the response of a handler that runs alone on request r of kind k and
\* whose remote calls settle with the replies settled
Alone(k, r, settled) ==
    LET s1 == Settled(SlotStarted(k, r), settled[1])
    IN  IF Len(settled) = 1 THEN s1.outcome ELSE Settled(s1, settled[2]).outcome

\* the backend of a single invocation agrees with Alone
AloneIsTheSingleRun ==
    (impl = "server" /\ kind \in { "generate", "chat" } /\ pc = "done")
        => outcome = Alone(kind, req, replies)

\* a step leaves every request but at most one as it was
OneSlotMoves ==
    \E k \in 1..MaxSlots :
        \A j \in DOMAIN slots : j # k => j \in DOMAIN slots' /\ slots'[j] = slots[j]

C26_AnalysisResultLifecycle ==
    [][/\ (ui.analysisResult # Null /\ ui'.analysisResult # ui.analysisResult)
              => (HandleStartOver \/ HandleGenerateProcess)
       /\ HandleStartOver =>
              /\ ui'.step = 1
              /\ ui'.userFile = Null /\ ui'.clothFile = Null
              /\ ui'.userPreview = Null /\ ui'.clothPreview = Null
              /\ ui'.analysisResult = Null /\ ui'.generatedImage = Null
              /\ ui'.selectedAspectRatio = ui.selectedAspectRatio
              /\ ui'.selectedSize = ui.selectedSize
              /\ chat'.messages = chat.messages]_vars

\* C26 witness: a try-on run set analysisResult and the image, a quick edit
\* was started and a chat turn answered while the result was shown, the
\* quality and the aspect ratio were chosen, and Start Over has then acted
\* while the edit is still awaited
C26_Witness ==
    /\ run.at = "done"
    /\ ui.step = 1 /\ ui.userFile = Null /\ ui.clothFile = Null
    /\ ui.analysisResult = Null /\ ui.generatedImage = Null
    /\ Len(edits) = 1
    /\ Len(chat.messages) = 2
    /\ ui.selectedSize = "4K" /\ ui.selectedAspectRatio = "9:16"

\* C25: after a chat or a transcription has failed in the widget, a message
\* the user is shown (a message of the list, or the alert) contains the
\* message of the failure as the backend produced it
C25_FailureShownVerbatim ==
    chat.caught # Null =>
        \/ \E i \in DOMAIN chat.messages : Includes(chat.messages[i].text, chat.caught[1])
        \/ chat.alert # Null /\ Includes(chat.alert[1], chat.caught[1])

\* the messages of the list with the given role
WithRole(role) == { i \in DOMAIN chat.messages : chat.messages[i].role = role }

\* what a model-role message can say: the text of a response, the
\* placeholder for an empty text, the fixed error text
ModelTexts ==
    { t[1] : t \in { r \in ReplyTexts : Truthy(r) } } \cup { NoResponseText, SorryText }

\* C31: a send with non-blank input appends its user message at once and
\* nothing else; the return or the failure of its remote call appends one
\* model-role message (the response text, the placeholder for an empty
\* text, or the fixed error text); no other step touches the list, so the
\* model messages and the awaited sends together are as many as the user
\* messages; and when every remote call eventually returns, isLoading
\* eventually becomes false
C31_SendCompletes ==
    /\ [](Cardinality(WithRole("model")) + Len(chat.sends) = Cardinality(WithRole("user")))
    /\ [][/\ Len(chat.sends') > Len(chat.sends) =>
                 /\ Trim(chat.inputValue) # <<>>
                 /\ chat'.messages = Append(chat.messages, ChatMessage("user", chat.inputValue))
                 /\ Len(chat.sends') = Len(chat.sends) + 1
          /\ Len(chat.sends') < Len(chat.sends) =>
                 /\ \E t \in ModelTexts :
                        chat'.messages = Append(chat.messages, ChatMessage("model", t))
                 /\ Len(chat.sends') = Len(chat.sends) - 1
          /\ Len(chat.sends') = Len(chat.sends) => chat'.messages = chat.messages]_vars
    /\ (chat.isLoading ~> ~chat.isLoading)

\* C31 witness: a send was answered without text and a second one failed;
\* each has its user message and its model message, and isLoading is false
C31_Witness ==
    /\ Len(chat.messages) = 4
    /\ chat.messages[1].role = "user" /\ chat.messages[2].text = NoResponseText
    /\ chat.messages[3].role = "user" /\ chat.messages[4].text = SorryText
    /\ chat.sends = <<>> /\ ~chat.isLoading

\* C32: whatever the user does in the wizard, step is in 1..4, a user file
\* is selected from step 2 on, a clothing file from step 3 on, and a try-on
\* run has been started with both files only
C32_WizardInvariant ==
    /\ ui.step \in 1..4
    /\ ui.step >= 2 => ui.userFile # Null
    /\ ui.step >= 3 => ui.clothFile # Null
    /\ run # NoRun => run.userFile # Null /\ run.clothFile # Null

\* C32 witness: a run was started from step 3 and failed; the wizard is
\* back at step 3 with both files, after the user had gone back and forth
C32_Witness ==
    /\ run.at = "failed"
    /\ ui.step = 3
    /\ ui.userFile # Null /\ ui.clothFile # Null
    /\ ui.userFile # run.userFile

\* C33: isAnalyzing and isGenerating are never both true and isGenerating
\* is true only after the analysis of the run has succeeded; the step that
\* ends a run by failure leaves both flags false, step = 3 and no generated
\* image, and the step that ends it by success leaves both flags false,
\* step = 4, analysisResult and generatedImage set
C33_RunFlags ==
    /\ [](/\ ~(ui.isAnalyzing /\ ui.isGenerating)
          /\ ui.isGenerating => run.at = "generate" /\ run.rawAnalysis # Null)
    /\ [][/\ (run.at # "failed" /\ run'.at = "failed") =>
                 /\ ~ui'.isAnalyzing /\ ~ui'.isGenerating
                 /\ ui'.step = 3
                 /\ ui'.generatedImage = Null
          /\ (run.at # "done" /\ run'.at = "done") =>
                 /\ ~ui'.isAnalyzing /\ ~ui'.isGenerating
                 /\ ui'.step = 4
                 /\ ui'.analysisResult # Null /\ ui'.generatedImage # Null]_vars

\* C34: a step that issues an edit finds a generated image and a non-empty
\* edit prompt and sends that image and that prompt; the answer 200 of an
\* edit replaces generatedImage by the edited image and clears the edit
\* prompt; any other answer (the 500 of a response without an image
\* included) and a failed fetch leave generatedImage and the edit prompt as
\* they were; in every case isEditing is false afterwards and
\* analysisResult is untouched
C34_EditOutcomeAndFrame ==
    [][/\ Len(edits') > Len(edits) =>
              /\ ui.generatedImage # Null /\ ui.editPrompt # <<>>
              /\ edits'[Len(edits')].imageBase64 = AfterComma(ui.generatedImage[1])
              /\ edits'[Len(edits')].prompt = ui.editPrompt
       /\ \A k \in DOMAIN edits, a \in EditAnswers :
              EditAnswered(k, a) =>
                  /\ ~ui'.isEditing /\ ui'.analysisResult = ui.analysisResult
                  /\ IF a.status = 200
                     THEN /\ ui'.generatedImage = Some(a.body.imageUrl)
                          /\ ui'.editPrompt = <<>>
                     ELSE /\ ui'.generatedImage = ui.generatedImage
                          /\ ui'.editPrompt = ui.editPrompt
       /\ \A k \in DOMAIN edits :
              EditFetchRejected(k) =>
                  /\ ~ui'.isEditing /\ ui'.analysisResult = ui.analysisResult
                  /\ ui'.generatedImage = ui.generatedImage
                  /\ ui'.editPrompt = ui.editPrompt]_vars

\* C34 witness: on the result view an edit has succeeded (the image is the
\* edited one and the prompt was cleared); a new prompt stands in the input
\* and no edit is awaited
C34_Witness ==
    /\ ui.step = 4 /\ ui.analysisResult # Null
    /\ ui.generatedImage = Some(DataUriPrefix \o DataZg)
    /\ ui.editPrompt = <<"x">>
    /\ ~ui.isEditing /\ edits = <<>>

\* C35: an edit whose answer replaces generatedImage was issued from the
\* image it replaces, so that no result of an edit is overwritten by an
\* edit that started from an older image
C35_EditsCompose ==
    [][\A k \in DOMAIN edits, a \in EditAnswers :
           (a.status = 200 /\ EditAnswered(k, a)) =>
               /\ ui.generatedImage # Null
               /\ edits[k].imageBase64 = AfterComma(ui.generatedImage[1])]_vars

\* C36: once every dimension probe has completed, the selected aspect ratio
\* is the one the latest selection stands for: the classification of the
\* photo selected last, or the ratio chosen after it; a probe of an earlier
\* photo and a failed probe change nothing
C36_LatestSelectionWins ==
    probes = <<>> => ui.selectedAspectRatio = latest.ratio
----------------------------------------------------------------------------
(* Entry of the backend handlers: the serverless handlers of api/ answer a
   preflight and a missing key themselves; the Express routes are reached by
   POST only, in a process that has a key *)

Methods == { "POST", "OPTIONS" }

\* process.env.GEMINI_API_KEY: unset, empty or set
ApiKeys == { Null, Some(<<>>), Some(<<"k">>) }

HandlerKinds == { "generate", "chat", "edit" }

HandlerGenRequests ==
    [prompt : { <<"a">> }, userImageBase64 : UserImages,
     aspectRatio : AspectRatios, imageSize : ImageSizes]
HandlerChatRequests ==
    [history : { <<>> }, message : { <<"b">> }, useSearch : BOOLEAN, useThinking : BOOLEAN]
HandlerEditRequests ==
    [imageBase64 : { DataQQ }, prompt : { <<"a">> }, aspectRatio : AspectRatios]

HandlerRequests(k) ==
    IF k = "generate" THEN HandlerGenRequests
    ELSE IF k = "chat" THEN HandlerChatRequests
    ELSE HandlerEditRequests

\* res.status(200).end()
OptionsResponse == [status |-> 200, body |-> Null]

\* res.status(500).json({ error: "GEMINI_API_KEY is not set" })
ApiKeyNotSet ==
    [status |-> 500,
     body |-> [error |-> <<"G", "E", "M", "I", "N", "I", "_", "A", "P", "I", "_", "K", "E", "Y", " ",
                           "i", "s", " ", "n", "o", "t", " ", "s", "e", "t">>]]

\* the handler answers before its try block: no request is issued
AnswersAtEntry(k, o) ==
    /\ impl' = "api"
    /\ kind' = k
    /\ Finish(o)
    /\ UNCHANGED <<req, calls, replies, caught, attemptedModel>>

\* the try block of the handler of kind k of backend i is entered
Enters(i, k, r) ==
    IF k = "generate" THEN GenerateImageStart(i, r)
    ELSE IF k = "chat" THEN ChatStart(i, r)
    ELSE EditStart(i, r)

\* mutant: a handler that tests the key only after its first request
Handler_KeyTestedLate(k, method, apiKey, r) ==
    /\ pc = "idle"
    /\ r \in HandlerRequests(k)
    /\ entry' = Some([method |-> method, apiKey |-> apiKey])
    /\ IF method = "OPTIONS"
       THEN AnswersAtEntry(k, OptionsResponse)
       ELSE Enters("api", k, r)

\* export default async function handler(req, res) of api/generate-image.js,
\* api/chat.js and api/edit-image.js, up to the first await
Handler(k, method, apiKey, r) ==
    /\ pc = "idle"
    /\ r \in HandlerRequests(k)
    /\ entry' = Some([method |-> method, apiKey |-> apiKey])
    /\ IF method = "OPTIONS"
       THEN AnswersAtEntry(k, OptionsResponse)
       ELSE IF ~Truthy(apiKey)
       THEN AnswersAtEntry(k, ApiKeyNotSet)
       ELSE Enters("api", k, r)

\* app.post(...) of server.js up to the first await: the route is
\* registered for POST, and the process exits at start-up without a key
Route(k, method, apiKey, r) ==
    /\ pc = "idle"
    /\ r \in HandlerRequests(k)
    /\ method = "POST"
    /\ Truthy(apiKey)
    /\ entry' = Some([method |-> method, apiKey |-> apiKey])
    /\ Enters("server", k, r)

\* the state beside the backend and its entry
NotEntry == <<ui, run, http, probes, chat, edits, slots, latest>>

\* a remote call of the handler returns
RemoteReturns ==
    \/ \E resp \in ImageResponses : GenerateImagePrimaryResolved(resp) /\ UNCHANGED appVars
    \/ \E e \in Errors : GenerateImagePrimaryRejected(e) /\ UNCHANGED appVars
    \/ \E resp \in ImageResponses : GenerateImageFallbackResolved(resp) /\ UNCHANGED appVars
    \/ \E e \in Errors : GenerateImageFallbackRejected(e) /\ UNCHANGED appVars
    \/ \E resp \in ChatResponses : ChatPrimaryResolved(resp) /\ UNCHANGED appVars
    \/ \E e \in Errors : ChatPrimaryRejected(e) /\ UNCHANGED appVars
    \/ \E resp \in ChatResponses : ChatFallbackResolved(resp) /\ UNCHANGED appVars
    \/ \E e \in Errors : ChatFallbackRejected(e) /\ UNCHANGED appVars
    \/ \E resp \in ImageResponses : EditResolved(resp) /\ UNCHANGED appVars
    \/ \E e \in Errors : EditRejected(e) /\ UNCHANGED appVars

NextHandler ==
    \/ \E k \in HandlerKinds, method \in Methods, apiKey \in ApiKeys :
       \E r \in HandlerRequests(k) :
           Handler(k, method, apiKey, r) /\ UNCHANGED NotEntry
    \/ \E k \in HandlerKinds, method \in Methods, apiKey \in ApiKeys :
       \E r \in HandlerRequests(k) :
           Route(k, method, apiKey, r) /\ UNCHANGED NotEntry
    \/ RemoteReturns

\* every remote call returns
SpecHandler == Init /\ [][NextHandler]_vars /\ WF_vars(RemoteReturns)


\* the request the handler was entered with
Entered(method) == entry # Null /\ entry[1].method = method

\* C37: a backend handler sends exactly one response per request: once its
\* remote calls return, every request is answered (on success, on an empty
\* result, on a primary failure and on a fallback failure), and a response
\* that was sent is never followed by a second one or by a further model
\* call; a serverless handler answers an OPTIONS request with status 200
\* and any other request that arrives while GEMINI_API_KEY is unset with
\* status 500, both without a remote model call
C37_OneResponsePerRequest ==
    /\ [](pc = "done" <=> outcome # Null)
    /\ [][outcome # Null => UNCHANGED <<outcome, calls, replies>>]_vars
    /\ (entry # Null) ~> (outcome # Null)
    /\ [](Entered("OPTIONS") =>
              outcome # Null /\ outcome[1].status = 200 /\ calls = <<>>)
    /\ []((Entered("POST") /\ ~Truthy(entry[1].apiKey)) =>
              outcome # Null /\ outcome[1].status = 500 /\ calls = <<>>)

\* C37 witness: the serverless image handler was refused by the primary
\* model, the fallback request failed as well, and the handler has answered
\* with status 500 after its two model calls
C37_Witness ==
    /\ impl = "api" /\ kind = "generate"
    /\ Entered("POST")
    /\ Len(calls) = 2 /\ Len(replies) = 2
    /\ ~replies[1].ok /\ ~replies[2].ok
    /\ outcome # Null /\ outcome[1].status = 500


----------------------------------------------------------------------------
(* The Express routes of server.js as functions of the request and of the
   outcomes of their remote calls *)

\* app.post('/api/edit-image') from the settlement of its remote call on
EditSettled(s, reply) ==
    LET t == [s EXCEPT !.replies = Append(@, reply)]
    IN  IF reply.ok
        THEN SlotDone(t, HttpEditFinish(extractImage(reply.value)))
        ELSE SlotDone([t EXCEPT !.caught = Some(reply.error)], HttpEditError(reply.error))

\* the locals of a route that has issued its first request
RouteStarted(k, r) ==
    IF k = "edit"
    THEN [kind |-> k, req |-> r, pc |-> "primary", calls |-> <<EditCall(r)>>,
          replies |-> <<>>, caught |-> Null, attemptedModel |-> "", outcome |-> Null]
    ELSE SlotStarted(k, r)

RouteSettled(s, reply) ==
    IF s.kind = "edit" THEN EditSettled(s, reply) ELSE Settled(s, reply)

\* the route after its remote calls have settled with the given outcomes
RECURSIVE RouteRun(_, _)
RouteRun(s, settled) ==
    IF settled = <<>> THEN s
    ELSE RouteRun(RouteSettled(s, Head(settled)), Tail(settled))

\* C38: for a POST request with the API key set and the same sequence of
\* remote model outcomes, a serverless handler has issued the model calls
\* (model, contents and configuration, in order) that the Express route of
\* server.js issues, and has sent the status code and body that the route
\* sends
C38_BackendsAgree ==
    (impl = "api" /\ Entered("POST") /\ Truthy(entry[1].apiKey)) =>
        LET route == RouteRun(RouteStarted(kind, req), replies)
        IN  /\ calls = route.calls
            /\ outcome = route.outcome
            /\ pc = route.pc

\* C38 witness: the serverless chat handler with thinking enabled was
\* refused by the primary model, sent the degraded fallback request and
\* answered 200 with its text
C38_Witness ==
    /\ impl = "api" /\ kind = "chat"
    /\ Entered("POST") /\ Truthy(entry[1].apiKey)
    /\ req.useThinking
    /\ Len(calls) = 2 /\ Len(replies) = 2
    /\ outcome # Null /\ outcome[1].status = 200

============================================================================
